---------------------------- MODULE Spec2Model ----------------------------
(***************************************************************************)
(* Model of the rigour-agentic-qa Python SDK: the execution substrate      *)
(* (AgenticExecutor.execute), the batch coordinator                        *)
(* (AgenticExecutor.execute_batch) and the pipeline orchestrator           *)
(* (RigourQA.run / run_scene).                                             *)
(*                                                                         *)
(* Text is modelled as a sequence of one-character strings so that the     *)
(* substring and regular-expression scans of the captured output are       *)
(* computed, not assumed.  Wall-clock values (duration, timestamp) are     *)
(* not modelled.                                                           *)
(***************************************************************************)
EXTENDS Integers, Sequences, FiniteSets, TLC

\* Python's None, for a field that holds a text or a record otherwise
NoText == <<"None">>
NoRecord == [none |-> TRUE]

(***************************************************************************)
(* Bounds of the model.                                                    *)
(***************************************************************************)
MaxLines == 2
MaxPlans == 5
MaxScenes == 2
MaxSuggest == 1
MaxFed == 11
MaxNew == 1
MaxParts == 2
MaxOps == 3

(***************************************************************************)
(* Text helpers.                                                           *)
(***************************************************************************)
Digits == {"0", "1", "2", "3", "4", "5", "6", "7", "8", "9"}


\* str.lower() of one character
LowerChar(c) ==
    CASE c = "A" -> "a" [] c = "B" -> "b" [] c = "C" -> "c" [] c = "D" -> "d"
      [] c = "E" -> "e" [] c = "F" -> "f" [] c = "G" -> "g" [] c = "H" -> "h"
      [] c = "I" -> "i" [] c = "J" -> "j" [] c = "K" -> "k" [] c = "L" -> "l"
      [] c = "M" -> "m" [] c = "N" -> "n" [] c = "O" -> "o" [] c = "P" -> "p"
      [] c = "Q" -> "q" [] c = "R" -> "r" [] c = "S" -> "s" [] c = "T" -> "t"
      [] c = "U" -> "u" [] c = "V" -> "v" [] c = "W" -> "w" [] c = "X" -> "x"
      [] c = "Y" -> "y" [] c = "Z" -> "z" [] OTHER -> c


\* needle in text
Contains(text, needle) ==
    \E i \in 1..(Len(text) - Len(needle) + 1) :
        SubSeq(text, i, i + Len(needle) - 1) = needle

\* "\n".join(lines): the text the process writes
RECURSIVE JoinLines(_)
JoinLines(lines) ==
    IF Len(lines) = 0 THEN << >>
    ELSE IF Len(lines) = 1 THEN lines[1]
    ELSE lines[1] \o <<"\n">> \o JoinLines(Tail(lines))

\* text.split('\n')
RECURSIVE SplitLines(_)
SplitLines(text) ==
    IF \A i \in 1..Len(text) : text[i] # "\n" THEN <<text>>
    ELSE LET k == CHOOSE i \in 1..Len(text) :
                      /\ text[i] = "\n"
                      /\ \A j \in 1..(i - 1) : text[j] # "\n"
         IN  <<SubSeq(text, 1, k - 1)>> \o SplitLines(SubSeq(text, k + 1, Len(text)))

\* str.strip()
RECURSIVE Strip(_)
Strip(text) ==
    IF Len(text) = 0 THEN text
    ELSE IF text[1] \in {" ", "\n", "\t"} THEN Strip(Tail(text))
    ELSE IF text[Len(text)] \in {" ", "\n", "\t"}
    THEN Strip(SubSeq(text, 1, Len(text) - 1))
    ELSE text

\* the decimal value of a run of digits
RECURSIVE DecimalValue(_)
DecimalValue(ds) ==
    IF Len(ds) = 0 THEN 0
    ELSE LET c == ds[Len(ds)]
             last == CASE c = "0" -> 0 [] c = "1" -> 1 [] c = "2" -> 2 [] c = "3" -> 3
                       [] c = "4" -> 4 [] c = "5" -> 5 [] c = "6" -> 6 [] c = "7" -> 7
                       [] c = "8" -> 8 [] c = "9" -> 9
         IN  10 * DecimalValue(SubSeq(ds, 1, Len(ds) - 1)) + last

\* str(n) of a non-negative integer, as in an f-string
RECURSIVE IntToText(_)
IntToText(n) ==
    LET last == <<"0", "1", "2", "3", "4", "5", "6", "7", "8", "9">>[(n % 10) + 1]
    IN  IF n < 10 THEN <<last>>
        ELSE Append(IntToText(n \div 10), last)

\* the matches of the regular expression (\d+) word in text, as <<start, end of digits>>
CounterMatches(text, word) ==
    {m \in (1..Len(text)) \X (1..Len(text)) :
        /\ m[1] <= m[2]
        /\ \A k \in m[1]..m[2] : text[k] \in Digits
        /\ m[2] + 1 + Len(word) <= Len(text)
        /\ text[m[2] + 1] = " "
        /\ SubSeq(text, m[2] + 2, m[2] + 1 + Len(word)) = word}

\* re.search(r'(\d+) word', text) is not None
CounterSearch(text, word) == CounterMatches(text, word) # {}

\* int(re.search(r'(\d+) word', text).group(1)): the leftmost match
CounterGroup(text, word) ==
    LET ms == CounterMatches(text, word)
        m  == CHOOSE x \in ms : \A y \in ms : x[1] <= y[1]
    IN  DecimalValue(SubSeq(text, m[1], m[2]))

WordError == <<"e","r","r","o","r">>

(***************************************************************************)
(* The lines a test process is drawn to write.                             *)
(***************************************************************************)
LinePassedCount == <<"1"," ","p","a","s","s","e","d">>
LineFailedCount == <<"2"," ","f","a","i","l","e","d">>
LineVerbosePassed == <<"t"," ","P","A","S","S","E","D">>
LineTypeError == <<"T","y","p","e","E","r","r","o","r">>
LineOk == <<"o","k">>
LineErrno == <<"E","r","r","n","o"," ","2">>

\* every sequence of at most n elements of S
SeqsUpTo(S, n) == UNION {[1..k -> S] : k \in 0..n}

\* proc.stdout: up to MaxLines lines of pytest output
Outputs ==
    {JoinLines(ls) :
        ls \in SeqsUpTo({LinePassedCount, LineFailedCount,
                         <<"1"," ","e","r","r","o","r">>, LineVerbosePassed,
                         <<"F","A","I","L","E","D"," ","t">>,
                         <<" ","E","R","R","O","R"," ","t">>,
                         LineTypeError, LineOk, LineErrno}, MaxLines)}

(***************************************************************************)
(* engine/types.py                                                         *)
(***************************************************************************)

\* TestPlan(id, scene_id, title, test_code)
TestPlan(id, scene_id, title, test_code) ==
    [id |-> id, scene_id |-> scene_id, title |-> title, test_code |-> test_code]

\* a result that is given the response of the system under test
ExecutionResultWithResponse(plan_id, status, passed) ==
    [plan_id |-> plan_id, status |-> status, passed |-> passed,
     stdout |-> << >>, assertions_passed |-> 0, assertions_failed |-> 0,
     error_message |-> NoText,
     response_data |-> [k |-> "dict", keys |-> <<"status">>,
                        vals |-> <<[k |-> "num", v |-> "200"]>>],
     metadata |-> << >>]

\* ExecutionResult(plan_id, status, passed) with the field defaults
ExecutionResult(plan_id, status, passed) ==
    [plan_id |-> plan_id, status |-> status, passed |-> passed,
     stdout |-> << >>, assertions_passed |-> 0, assertions_failed |-> 0,
     error_message |-> NoText, response_data |-> NoRecord, metadata |-> << >>]

(***************************************************************************)
(* engine/executor.py                                                      *)
(***************************************************************************)
DefaultTimeout == 60

Behaviour(fault, rc, out) == [fault |-> fault, rc |-> rc, out |-> out]

\* what the environment does during one execution: the step that fails
\* ("none", "create", "write", "spawn", "read", "timeout", "unlink"), and for a process
\* that exits its return code and output
Behaviours ==
    {Behaviour(f, rc, o) : f \in {"none", "unlink"}, rc \in {0, 1, 2}, o \in Outputs}
      \cup {Behaviour(f, 0, << >>) : f \in {"write", "spawn", "read", "timeout"}}

\* str(e) of the exception a failing step raises
ExceptionText(fault) == <<"OSError", fault>>

\* a scan that keeps going and ends with the last line holding FAILED or ERROR
LastErrorLine(lines) ==
    LET hits == {i \in 1..Len(lines) :
                    \/ Contains(lines[i], <<"F","A","I","L","E","D">>)
                    \/ Contains(lines[i], <<"E","R","R","O","R">>)}
    IN  IF hits = {} THEN NoText
        ELSE Strip(lines[CHOOSE i \in hits : \A j \in hits : i >= j])

\* the first line of the output holding FAILED or ERROR, stripped; NoText when there is none
FirstErrorLine(lines) ==
    LET hits == {i \in 1..Len(lines) :
                    \/ Contains(lines[i], <<"F","A","I","L","E","D">>)
                    \/ Contains(lines[i], <<"E","R","R","O","R">>)}
    IN  IF hits = {} THEN NoText
        ELSE Strip(lines[CHOOSE i \in hits : \A j \in hits : i <= j])

\* the override with a case-sensitive scan for the word
ErrorDetectedCaseSensitive(output) ==
    CounterSearch(output, WordError) \/ Contains(output, WordError)

\* the override of _parse_pytest_output: an 'N error' counter or the word error in any case
ErrorDetected(output) ==
    CounterSearch(output, WordError) \/ Contains([i \in 1..Len(output) |-> LowerChar(output[i])], WordError)

_parse_pytest_output(result, output) ==
    LET r1 == IF CounterSearch(output, <<"p","a","s","s","e","d">>)
              THEN [result EXCEPT !.assertions_passed = CounterGroup(output, <<"p","a","s","s","e","d">>)]
              ELSE result
        r2 == IF CounterSearch(output, <<"f","a","i","l","e","d">>)
              THEN [r1 EXCEPT !.assertions_failed = CounterGroup(output, <<"f","a","i","l","e","d">>)]
              ELSE r1
        r3 == IF ErrorDetected(output)
              THEN [r2 EXCEPT !.status = "error", !.passed = FALSE]
              ELSE r2
        msg == FirstErrorLine(SplitLines(output))
    IN  IF msg = NoText THEN r3 ELSE [r3 EXCEPT !.error_message = msg]

\* f"Test timed out after {self.timeout} seconds"
TimeoutMessage(t) ==
    <<"T","e","s","t"," ","t","i","m","e","d"," ","o","u","t"," ","a","f","t","e","r"," ">>
      \o IntToText(t) \o <<" ","s","e","c","o","n","d","s">>

\* the TimeoutExpired clause without the assignment to passed
OnTimeoutExpiredStatusOnly(result, t) ==
    [result EXCEPT !.status = "error", !.error_message = TimeoutMessage(t)]

\* the TimeoutExpired clause with the default timeout written into the message
OnTimeoutExpiredDefaultMessage(result, t) ==
    [result EXCEPT !.status = "error", !.passed = FALSE,
                   !.error_message = TimeoutMessage(DefaultTimeout)]

\* except subprocess.TimeoutExpired
OnTimeoutExpired(result, t) ==
    [result EXCEPT !.status = "error", !.passed = FALSE,
                   !.error_message = TimeoutMessage(t)]

\* an except clause that records the message and leaves the verdict as it stands
OnExceptionMessageOnly(result, e) ==
    [result EXCEPT !.error_message = e]

\* except Exception as e
OnException(result, e) ==
    [result EXCEPT !.status = "error", !.passed = FALSE, !.error_message = e]

\* the assignments after subprocess.run, with passed taken from the truth of the exit code
OnProcessExitTruthy(result, rc, out) ==
    [result EXCEPT !.stdout = out,
                   !.passed = (rc # 0),
                   !.status = IF rc = 0 THEN "passed" ELSE "failed"]

\* the assignments after subprocess.run returns
OnProcessExit(result, rc, out) ==
    [result EXCEPT !.stdout = out,
                   !.passed = (rc = 0),
                   !.status = IF rc = 0 THEN "passed" ELSE "failed"]

\* an exception leaving a call instead of a value
Raised(kind) == [raised |-> kind]
IsRaised(v) == "raised" \in DOMAIN v

\* The try block of execute: how it ends ("done", or the exception raised in
\* it), the exception's text, and the result object as it stands then.
TryBlock(plan, b) ==
    LET result == ExecutionResult(plan.id, "passed", TRUE)
        parsed == _parse_pytest_output(OnProcessExit(result, b.rc, b.out), b.out)
    IN  CASE b.fault \in {"create", "write", "spawn", "read"} ->
               [ends |-> "Exception", e |-> ExceptionText(b.fault), result |-> result]
          [] b.fault = "timeout" ->
               [ends |-> "TimeoutExpired", e |-> NoText, result |-> result]
          [] b.fault = "unlink" ->
               [ends |-> "Exception", e |-> ExceptionText(b.fault), result |-> parsed]
          [] OTHER ->
               [ends |-> "done", e |-> NoText, result |-> parsed]

\* execute without its except clauses: the exception leaves the call
ExecuteUnhandled(plan, b, timeout) ==
    LET t == TryBlock(plan, b)
    IN  IF t.ends = "done" THEN t.result ELSE Raised(t.ends)

\* AgenticExecutor.execute(plan) under the environment's behaviour b
execute(plan, b, timeout) ==
    LET t == TryBlock(plan, b)
    IN  CASE t.ends = "TimeoutExpired" -> OnTimeoutExpired(t.result, timeout)
          [] t.ends = "Exception" -> OnException(t.result, t.e)
          [] OTHER -> t.result

(***************************************************************************)
(* State.                                                                  *)
(***************************************************************************)
VARIABLES
    timeout,      \* AgenticExecutor.timeout
    ex_plan,      \* the plan of the last execute call, NoRecord before it
    ex_beh,       \* the environment's behaviour during that call
    ex_result,    \* the ExecutionResult it returned
    tmpdir,       \* the temporary directory: path -> the file there (its content, and who created it)
    executions,   \* every execute call made on the directory, finished or not, in call order
    b_pc,         \* execute_batch: "idle", "running", "returned", "raised"
    b_parallel,   \* its parallel argument
    b_plans,      \* its plans argument
    b_behs,       \* the environment's behaviour during the execution of each plan, once finished
    b_next,       \* how many plans have been taken up for execution
    b_running,    \* the indices of the plans whose execution is in progress
    b_futures,    \* per plan, the result of its execution, NoRecord until it finishes
    b_completed,  \* the indices of the plans in the order their executions finished
    b_results,    \* the list execute_batch returned, empty before it returns
    config,       \* RigourQA.config
    test_codes,   \* RigourQA.test_codes: plan id -> source code
    r_pc,         \* run: "idle", "running", "returned", "raised"
    scenes,       \* its scenes argument
    idx,          \* how many scenes the loop of run has finished
    run_result,   \* its RunResult
    exc,          \* the exception that ended run and the stage it left, NoRecord if none
    pc,           \* run_scene: where the current scene run stands
    plan,         \* its plan
    healed_plan,  \* its healed_plan
    edge_cases,   \* its edge_cases
    scene_result, \* its scene_result (execution_result is the object result names)
    executing,    \* the id of the plan the orchestrator thread is executing, << >> if none
    uuids,        \* how many uuid4 values have been drawn
    trace,        \* the stages of the current scene run, as start and end events
    calls,        \* per scene run, how often each collaborator has been called
    failure_history, \* SelfHealer.failure_history: test id -> list of results
    fl_fed,       \* per test id, every result handed to is_flaky so far, in order
    fl_ret,       \* the last is_flaky call: its arguments and what it returned
    o_call,       \* the last call of an oracle-backed function: arguments, oracle outcome, result
    cli_exit,     \* the run command of the CLI: NoRecord while it runs, then its exit code
    heap,         \* the Scene objects constructed so far; a reference is an index
    _scene,       \* SceneBuilder._scene: the reference the builder holds, 0 without a builder
    built,        \* per build() call, the reference it returned and the Scene as it was then
    sc_log,       \* the calls made on the scene and the builder, in order
    connection,   \* RigourQA.connection
    h_call        \* the last get_headers call: what it and get_auth_header returned

execVars == <<ex_plan, ex_beh, ex_result, tmpdir, executions>>
batchVars == <<b_pc, b_parallel, b_plans, b_behs, b_next, b_running, b_futures,
               b_completed, b_results>>
runVars == <<config, test_codes, r_pc, scenes, idx, run_result, exc>>
sceneVars == <<pc, plan, healed_plan, edge_cases, scene_result, executing, uuids,
               trace, calls>>
pipeVars == <<runVars, sceneVars>>
flakyVars == <<failure_history, fl_fed, fl_ret>>
schemaVars == <<heap, _scene, built, sc_log>>
connVars == <<connection, h_call>>
vars == <<timeout, execVars, batchVars, pipeVars, flakyVars, o_call, cli_exit,
          schemaVars, connVars>>

NoCalls ==
    [plan |-> 0, execute |-> 0, explore |-> 0, suggest |-> 0, edge_plan |-> 0,
     execute_batch |-> 0, edge_execute |-> 0, diagnose |-> 0, heal |-> 0, judge |-> 0]

\* Connection(base_url=...) with the field defaults
Connection(auth_type, auth_token, username, password, headers) ==
    [auth_type |-> auth_type, auth_token |-> auth_token, username |-> username,
     password |-> password, headers |-> headers]

\* Every object as its constructor leaves it and nothing called yet: the
\* executor, RigourQA (run not called), the SelfHealer, the oracle-backed
\* functions, the run command; no Scene and no SceneBuilder constructed.
Idle ==
    /\ ex_plan = NoRecord
    /\ ex_beh = NoRecord
    /\ ex_result = NoRecord
    /\ tmpdir = << >>
    /\ executions = << >>
    /\ test_codes = << >>
    /\ r_pc = "idle"
    /\ scenes = << >>
    /\ idx = 0
    /\ run_result = NoRecord
    /\ exc = NoRecord
    /\ pc = "none"
    /\ plan = NoRecord
    /\ healed_plan = NoRecord
    /\ edge_cases = << >>
    /\ scene_result = NoRecord
    /\ executing = << >>
    /\ uuids = 0
    /\ trace = << >>
    /\ calls = NoCalls
    /\ cli_exit = NoRecord
    /\ failure_history = << >>
    /\ fl_fed = << >>
    /\ fl_ret = NoRecord
    /\ o_call = NoRecord
    /\ heap = << >>
    /\ _scene = 0
    /\ built = << >>
    /\ sc_log = << >>

ConnIdle ==
    /\ connection = Connection(NoText, NoText, NoText, NoText, << >>)
    /\ h_call = NoRecord

DefaultConfig ==
    [enable_edge_case_exploration |-> TRUE, enable_healing |-> TRUE,
     enable_quality_judgment |-> TRUE]

BatchIdle ==
    /\ b_pc = "idle"
    /\ b_parallel = FALSE
    /\ b_plans = << >>
    /\ b_behs = << >>
    /\ b_next = 0
    /\ b_running = {}
    /\ b_futures = << >>
    /\ b_completed = << >>
    /\ b_results = << >>

(***************************************************************************)
(* AgenticExecutor.execute, called on its own.                             *)
(***************************************************************************)
ExecInit ==
    /\ timeout \in {1, 30, DefaultTimeout}
    /\ config = DefaultConfig
    /\ Idle
    /\ BatchIdle
    /\ ConnIdle

\* one call of execute
ExecuteCall ==
    /\ ex_result = NoRecord
    /\ \E id \in {<<"plan", 1>>, <<"plan", 1, "_healed">>}, b \in Behaviours :
        LET p == TestPlan(id, "scene", "title", "code")
        IN  /\ ex_plan' = p
            /\ ex_beh' = b
            /\ ex_result' = execute(p, b, timeout)
    /\ UNCHANGED <<tmpdir, executions, timeout, cli_exit, schemaVars, connVars, flakyVars, o_call, batchVars, pipeVars>>

SpecExec == ExecInit /\ [][ExecuteCall]_vars

(***************************************************************************)
(* AgenticExecutor.execute_batch.                                          *)
(***************************************************************************)
\* ThreadPoolExecutor(max_workers=4)
max_workers == 4

\* a pool that starts a thread for every queued plan
WorkerAlwaysAvailable(running) == Cardinality(running) >= 0

\* a pool thread is free to take the next queued plan
WorkerAvailable(running) == Cardinality(running) < max_workers

\* the results gathered as the executions finish (as_completed)
MapResultsAsCompleted(futures, completed) ==
    [k \in 1..Len(completed) |-> futures[completed[k]]]

\* a list that leaves out the results of the executions that did not pass
MapResultsOfPassed(futures, completed) ==
    LET RECURSIVE Keep(_)
        Keep(fs) == IF Len(fs) = 0 THEN << >>
                    ELSE IF fs[1].passed THEN <<fs[1]>> \o Keep(Tail(fs))
                    ELSE Keep(Tail(fs))
    IN  Keep(futures)

\* list(executor.map(self.execute, plans)): the results in the order of the plans
MapResults(futures, completed) == [i \in 1..Len(futures) |-> futures[i]]

\* what the execution that finishes now is drawn from
FinishBehaviours ==
    IF r_pc = "idle"
    THEN \* execute_batch called on its own
         {Behaviour("none", 0, LinePassedCount), Behaviour("timeout", 0, << >>),
          Behaviour("spawn", 0, << >>)}
    ELSE \* the edge-case executions of a scene run
         {Behaviour("none", 0, LinePassedCount), Behaviour("none", 1, LineFailedCount)}

\* the call: the arguments are bound and every plan is queued
BatchEnter(plans, parallel) ==
    /\ b_pc' = "running"
    /\ b_parallel' = parallel
    /\ b_plans' = plans
    /\ b_behs' = [i \in 1..Len(plans) |-> NoRecord]
    /\ b_next' = 0
    /\ b_running' = {}
    /\ b_futures' = [i \in 1..Len(plans) |-> NoRecord]
    /\ b_completed' = << >>
    /\ b_results' = << >>

\* parallel: a pool thread takes the plan at the head of the work queue
WorkerStart ==
    /\ b_pc = "running" /\ b_parallel
    /\ b_next < Len(b_plans)
    /\ WorkerAvailable(b_running)
    /\ b_next' = b_next + 1
    /\ b_running' = b_running \cup {b_next + 1}
    /\ UNCHANGED <<timeout, cli_exit, schemaVars, connVars, flakyVars, o_call, execVars, pipeVars, b_pc, b_parallel, b_plans, b_behs, b_futures,
                   b_completed, b_results>>

\* parallel: the execute call of a pool thread returns
WorkerFinish ==
    /\ b_pc = "running" /\ b_parallel
    /\ \E i \in b_running, b \in FinishBehaviours :
        /\ b_running' = b_running \ {i}
        /\ b_behs' = [b_behs EXCEPT ![i] = b]
        /\ b_futures' = [b_futures EXCEPT ![i] = execute(b_plans[i], b, timeout)]
        /\ b_completed' = Append(b_completed, i)
    /\ UNCHANGED <<timeout, cli_exit, schemaVars, connVars, flakyVars, o_call, execVars, pipeVars, b_pc, b_parallel, b_plans, b_next,
                   b_results>>

\* sequential: the comprehension calls execute for the next plan
SeqStart ==
    /\ b_pc = "running" /\ ~b_parallel
    /\ b_next < Len(b_plans)
    /\ b_running = {}
    /\ b_next' = b_next + 1
    /\ b_running' = {b_next + 1}
    /\ UNCHANGED <<timeout, cli_exit, schemaVars, connVars, flakyVars, o_call, execVars, pipeVars, b_pc, b_parallel, b_plans, b_behs, b_futures,
                   b_completed, b_results>>

\* sequential: that call returns
SeqFinish ==
    /\ b_pc = "running" /\ ~b_parallel
    /\ \E i \in b_running, b \in FinishBehaviours :
        /\ b_running' = {}
        /\ b_behs' = [b_behs EXCEPT ![i] = b]
        /\ b_futures' = [b_futures EXCEPT ![i] = execute(b_plans[i], b, timeout)]
        /\ b_completed' = Append(b_completed, i)
    /\ UNCHANGED <<timeout, cli_exit, schemaVars, connVars, flakyVars, o_call, execVars, pipeVars, b_pc, b_parallel, b_plans, b_next,
                   b_results>>

\* an execute_batch that returns without waiting for its executions
BatchReturnWithoutWaiting ==
    /\ b_pc = "running"
    /\ IF \E i \in 1..Len(b_futures) : IsRaised(b_futures[i])
       THEN \* Future.result() raises what the call raised
            /\ b_pc' = "raised"
            /\ b_results' = << >>
       ELSE /\ b_pc' = "returned"
            /\ b_results' = IF b_parallel THEN MapResults(b_futures, b_completed)
                            ELSE b_futures
    /\ UNCHANGED <<timeout, cli_exit, schemaVars, connVars, flakyVars, o_call, execVars, pipeVars, b_parallel, b_plans, b_behs, b_next, b_running,
                   b_futures, b_completed>>

\* every execution has finished: execute_batch returns the list
BatchReturn ==
    /\ b_pc = "running"
    /\ b_next = Len(b_plans)
    /\ b_running = {}
    /\ IF \E i \in 1..Len(b_futures) : IsRaised(b_futures[i])
       THEN \* Future.result() raises what the call raised
            /\ b_pc' = "raised"
            /\ b_results' = << >>
       ELSE /\ b_pc' = "returned"
            /\ b_results' = IF b_parallel THEN MapResults(b_futures, b_completed)
                            ELSE b_futures
    /\ UNCHANGED <<timeout, cli_exit, schemaVars, connVars, flakyVars, o_call, execVars, pipeVars, b_parallel, b_plans, b_behs, b_next, b_running,
                   b_futures, b_completed>>

BatchInit ==
    /\ timeout \in {1, 30, DefaultTimeout}
    /\ config = DefaultConfig
    /\ Idle
    /\ ConnIdle
    /\ \E n \in 0..MaxPlans :
        /\ b_plans = [i \in 1..n |-> TestPlan(<<"plan", i>>, "scene", "title", "code")]
        /\ b_behs = [i \in 1..n |-> NoRecord]
        /\ b_futures = [i \in 1..n |-> NoRecord]
    /\ b_pc = "running"
    /\ b_parallel \in BOOLEAN
    /\ b_next = 0
    /\ b_running = {}
    /\ b_completed = << >>
    /\ b_results = << >>

SpecBatch ==
    BatchInit /\ [][WorkerStart \/ WorkerFinish \/ SeqStart \/ SeqFinish \/ BatchReturn]_vars

(***************************************************************************)
(* agents/healer.py: SelfHealer.is_flaky.                                  *)
(***************************************************************************)

\* [-10:]
WindowSize == 10
\* if len(recent) < 3
MinSamples == 3
\* 0.3 <= pass_rate <= 0.7, in tenths
PassRateLow == 3
PassRateHigh == 7
\* failed_count >= 2
MinFailures == 2

\* history[-10:]
Recent(history) ==
    SubSeq(history,
           IF Len(history) > WindowSize THEN Len(history) - WindowSize + 1 ELSE 1,
           Len(history))

\* sum(1 for r in recent if r.passed)
PassedCount(recent) == Cardinality({i \in 1..Len(recent) : recent[i].passed})

\* the verdict without the check failed_count >= 2
FlakyVerdictAnyFailure(recent) ==
    LET passed_count == PassedCount(recent)
        failed_count == Len(recent) - passed_count
    IN  IF Len(recent) < MinSamples THEN FALSE
        ELSE IF failed_count = 0 \/ passed_count = 0 THEN FALSE
        ELSE /\ PassRateLow * Len(recent) <= 10 * passed_count
             /\ 10 * passed_count <= PassRateHigh * Len(recent)

\* is_flaky from `if len(recent) < 3` on.  pass_rate is the float quotient
\* passed_count / len(recent); with len(recent) <= 10 it compares with 0.3
\* and 0.7 as the exact quotient does (3/10 and 7/10 round to the doubles the
\* literals denote, every other quotient is further away than the rounding).
FlakyVerdict(recent) ==
    LET passed_count == PassedCount(recent)
        failed_count == Len(recent) - passed_count
    IN  IF Len(recent) < MinSamples THEN FALSE
        ELSE IF failed_count = 0 \/ passed_count = 0 THEN FALSE
        ELSE /\ PassRateLow * Len(recent) <= 10 * passed_count
             /\ 10 * passed_count <= PassRateHigh * Len(recent)
             /\ failed_count >= MinFailures

\* a tracker that keeps one list for all test ids
ExtendSharedHistory(stored, test_id, history) ==
    LET known == IF DOMAIN stored = {} THEN << >>
                 ELSE stored[CHOOSE id \in DOMAIN stored : TRUE]
    IN  [id \in DOMAIN stored \cup {test_id} |-> known \o history]

\* if test_id not in self.failure_history: self.failure_history[test_id] = []
\* self.failure_history[test_id].extend(history)
ExtendHistory(stored, test_id, history) ==
    LET known == IF test_id \in DOMAIN stored THEN stored[test_id] ELSE << >>
    IN  (test_id :> (known \o history)) @@ stored

\* how many results have been handed to is_flaky so far, over all test ids
TotalFed ==
    LET RECURSIVE Sum(_)
        Sum(S) == IF S = {} THEN 0
                  ELSE LET x == CHOOSE y \in S : TRUE
                       IN  Len(fl_fed[x]) + Sum(S \ {x})
    IN  Sum(DOMAIN fl_fed)

\* is_flaky(test_id, history); the results handed in are passing and failing
\* executions of the test
IsFlakyCall ==
    /\ \E test_id \in {"t1", "t2"} :
       \E history \in SeqsUpTo({ExecutionResult(test_id, "passed", TRUE),
                                ExecutionResult(test_id, "failed", FALSE)}, MaxNew) :
        /\ TotalFed + Len(history) <= MaxFed
        /\ LET extended == ExtendHistory(failure_history, test_id, history)
           IN  /\ failure_history' = extended
               /\ fl_ret' = [test_id |-> test_id, history |-> history,
                             flaky |-> FlakyVerdict(Recent(extended[test_id]))]
        /\ fl_fed' = (test_id :> ((IF test_id \in DOMAIN fl_fed THEN fl_fed[test_id]
                                   ELSE << >>) \o history)) @@ fl_fed
    /\ UNCHANGED <<timeout, cli_exit, schemaVars, connVars, execVars, batchVars, pipeVars, o_call>>

\* the default configuration and nothing called yet
IdleInit ==
    /\ timeout = DefaultTimeout
    /\ config = DefaultConfig
    /\ Idle
    /\ BatchIdle
    /\ ConnIdle

SpecFlaky == IdleInit /\ [][IsFlakyCall]_vars

(***************************************************************************)
(* runner.py: RigourQA.run and RigourQA.run_scene.                         *)
(* The console reporter only prints and is not modelled.                   *)
(***************************************************************************)
Configs ==
    [enable_edge_case_exploration : BOOLEAN, enable_healing : BOOLEAN,
     enable_quality_judgment : BOOLEAN]

\* str(uuid4()): the n-th value drawn
Uuid(n) == <<"uuid", n>>

\* the i-th scene handed to run
\* Step(action=action, input=None, expect=None)
Step(action) == [action |-> action, input |-> NoRecord, expect |-> NoText]

\* Scene(id=..., title=...) with the field defaults, as a scene file entry
\* without actor, steps, assertions, tags and metadata gives it
Scene(i) ==
    [id |-> <<"scene", i>>, title |-> <<"title", i>>, actor |-> NoRecord,
     steps |-> << >>, assertions |-> << >>, tags |-> << >>, priority |-> "medium",
     metadata |-> << >>]

\* test code: the scene it is for, and whether the planner or the healer wrote it
TestCode(author, scene_id) == [author |-> author, scene_id |-> scene_id]

\* SceneResult(scene_id, scene_title, passed=False, execution_result) with the field defaults
SceneResult(scene, execution_result) ==
    [scene_id |-> scene.id, scene_title |-> scene.title, passed |-> FALSE,
     execution_result |-> execution_result, edge_case_results |-> << >>,
     healing_result |-> NoRecord, edge_cases_count |-> 0]

\* RunResult(total_scenes, passed=0, failed=0, edge_cases_found=0)
RunResult(total_scenes) ==
    [total_scenes |-> total_scenes, passed |-> 0, failed |-> 0,
     edge_cases_found |-> 0, scene_results |-> << >>]

\* the behaviours the primary and the healed execution are drawn from
PrimaryBehaviours ==
    {Behaviour("none", 0, LinePassedCount), Behaviour("none", 1, LineFailedCount),
     Behaviour("timeout", 0, << >>)}

\* edge_cases[:8]
EdgeCap == 8
Take(list, n) == SubSeq(list, 1, IF Len(list) < n THEN Len(list) ELSE n)

\* exploration entered whatever the primary result is
ExploreEnabledAnyResult(cfg, result) == cfg.enable_edge_case_exploration

\* if self.config.enable_edge_case_exploration and result.passed
ExploreEnabled(cfg, result) == cfg.enable_edge_case_exploration /\ result.passed

\* healing entered on every failure whatever the configuration is
HealEnabledAnyConfig(cfg, result) == ~result.passed

\* if self.config.enable_healing and not result.passed
HealEnabled(cfg, result) == cfg.enable_healing /\ ~result.passed

\* if self.config.enable_quality_judgment
JudgeEnabled(cfg) == cfg.enable_quality_judgment

\* the if statements with healing entered after an exploration as well
NextStageHealingAfterExploration(after, cfg, result) ==
    IF after = "Execute" /\ ExploreEnabled(cfg, result) THEN "explore"
    ELSE IF after = "Explore" /\ cfg.enable_healing THEN "heal"
    ELSE IF after = "Execute" /\ HealEnabled(cfg, result) THEN "heal"
    ELSE IF after \in {"Execute", "Explore", "Heal"} /\ JudgeEnabled(cfg) THEN "judge"
    ELSE "return"

\* the if statements of run_scene that follow the stage `after`, in order
NextStage(after, cfg, result) ==
    IF after = "Execute" /\ ExploreEnabled(cfg, result) THEN "explore"
    ELSE IF after \in {"Execute", "Explore"} /\ HealEnabled(cfg, result) THEN "heal"
    ELSE IF after \in {"Execute", "Explore", "Heal"} /\ JudgeEnabled(cfg) THEN "judge"
    ELSE "return"

\* the healed plan under the id of the plan it replaces
HealedPlanSameId(p, healed_code) ==
    TestPlan(p.id, p.scene_id, p.title, healed_code)

\* TestPlan(id=plan.id + "_healed", scene_id=plan.scene_id, title=plan.title, ...)
HealedPlan(p, healed_code) ==
    TestPlan(p.id \o <<"_healed">>, p.scene_id, p.title, healed_code)

\* a healing attempt that marks the scene passed whatever its execution gives
HealedVerdictAlways(passed, healed_result) == TRUE

\* if healed_result.passed: scene_result.passed = True
HealedVerdict(passed, healed_result) ==
    IF healed_result.passed THEN TRUE ELSE passed

(***************************************************************************)
(* The reasoning oracle (client.messages.create) and what its callers do   *)
(* with the text it returns.  A response is a sequence of tokens: the      *)
(* JSON punctuation, JSON scalars, the fences and the function header the  *)
(* planner looks for, whitespace, and prose.  Brackets inside JSON strings *)
(* are not modelled.                                                       *)
(***************************************************************************)
Tok(t, v) == [t |-> t, v |-> v]
\* a punctuation token
P(c) == Tok(c, c)

TokStr(v) == Tok("str", v)

\* the values json.loads builds
JScalar(k, v) == [k |-> k, v |-> v]
JList(items) == [k |-> "list", items |-> items]
JDict(keys, vals) == [k |-> "dict", keys |-> keys, vals |-> vals]

\* dict.get(key, default): the last member under the key wins in json.loads
DictGet(d, key, default) ==
    LET hits == {i \in 1..Len(d.keys) : d.keys[i] = key}
    IN  IF hits = {} THEN default
        ELSE d.vals[CHOOSE i \in hits : \A j \in hits : j <= i]

ParseFail == [ok |-> FALSE, val |-> NoRecord, next |-> 0]
Parsed(val, next) == [ok |-> TRUE, val |-> val, next |-> next]
At(toks, i) == IF i >= 1 /\ i <= Len(toks) THEN toks[i].t ELSE "eof"

\* the JSON grammar: one value starting at token i
RECURSIVE ParseValue(_, _), ParseItems(_, _, _), ParseMembers(_, _, _, _)
ParseValue(toks, i) ==
    CASE At(toks, i) = "str" -> Parsed(JScalar("str", toks[i].v), i + 1)
      [] At(toks, i) = "num" -> Parsed(JScalar("num", toks[i].v), i + 1)
      [] At(toks, i) = "lit" -> Parsed(JScalar("lit", toks[i].v), i + 1)
      [] At(toks, i) = "[" ->
           IF At(toks, i + 1) = "]" THEN Parsed(JList(<< >>), i + 2)
           ELSE ParseItems(toks, i + 1, << >>)
      [] At(toks, i) = "{" ->
           IF At(toks, i + 1) = "}" THEN Parsed(JDict(<< >>, << >>), i + 2)
           ELSE ParseMembers(toks, i + 1, << >>, << >>)
      [] OTHER -> ParseFail

ParseItems(toks, i, acc) ==
    LET After(r) ==
            IF ~r.ok THEN ParseFail
            ELSE IF At(toks, r.next) = ","
                 THEN ParseItems(toks, r.next + 1, Append(acc, r.val))
            ELSE IF At(toks, r.next) = "]"
                 THEN Parsed(JList(Append(acc, r.val)), r.next + 1)
            ELSE ParseFail
    IN  After(ParseValue(toks, i))

ParseMembers(toks, i, keys, vals) ==
    IF At(toks, i) # "str" \/ At(toks, i + 1) # ":" THEN ParseFail
    ELSE LET After(r) ==
                 IF ~r.ok THEN ParseFail
                 ELSE IF At(toks, r.next) = ","
                      THEN ParseMembers(toks, r.next + 1, Append(keys, toks[i].v),
                                        Append(vals, r.val))
                 ELSE IF At(toks, r.next) = "}"
                      THEN Parsed(JDict(Append(keys, toks[i].v), Append(vals, r.val)),
                                  r.next + 1)
                 ELSE ParseFail
         IN  After(ParseValue(toks, i + 2))

\* str.strip() on a response: whitespace tokens at both ends go
RECURSIVE StripToks(_)
StripToks(toks) ==
    IF Len(toks) = 0 THEN toks
    ELSE IF toks[1].t = "ws" THEN StripToks(Tail(toks))
    ELSE IF toks[Len(toks)].t = "ws" THEN StripToks(SubSeq(toks, 1, Len(toks) - 1))
    ELSE toks

\* whitespace between JSON tokens is insignificant
NotSpace(tok) == tok.t # "ws"

\* json.loads(text): the value, or JSONDecodeError (no value, or data after it)
JsonLoads(toks) ==
    LET Whole(body) ==
            LET Checked(r) == IF r.ok /\ r.next = Len(body) + 1 THEN r.val
                              ELSE Raised("JSONDecodeError")
            IN  Checked(ParseValue(body, 1))
    IN  Whole(SelectSeq(toks, NotSpace))

\* re.search(open .* close, text, re.DOTALL): from the first opening token to
\* the last closing token after it; << >> stands for no match
GreedySpan(toks, open, close) ==
    LET opens == {i \in 1..Len(toks) : toks[i].t = open}
        first == CHOOSE i \in opens : \A j \in opens : i <= j
        closes == {j \in 1..Len(toks) : toks[j].t = close /\ j > first}
        last == CHOOSE j \in closes : \A i \in closes : i <= j
    IN  IF opens = {} THEN << >>
        ELSE IF closes = {} THEN << >>
        ELSE SubSeq(toks, first, last)

\* json_match = re.search(...); json.loads(json_match.group()) if json_match
\* else json.loads(response_text)
LoadsMatchOrText(toks, open, close) ==
    LET Text(json_match) == IF json_match # << >> THEN json_match ELSE toks
    IN  JsonLoads(Text(GreedySpan(toks, open, close)))

\* what one call of client.messages.create gives: the text of the answer, or
\* the exception it raises
Answer(toks) == [text |-> toks]

(***************************************************************************)
(* engine/planner.py: AgenticPlanner.plan.                                 *)
(***************************************************************************)
\* _extract_code(response): the code as [code |-> tokens], NoRecord for None
_extract_code(response) ==
    LET opens == {i \in 1..Len(response) : response[i].t = "fence_open"}
        first == CHOOSE i \in opens : \A j \in opens : i <= j
        closes == {j \in 1..Len(response) : response[j].t = "fence_close" /\ j > first}
        close == CHOOSE j \in closes : \A i \in closes : j <= i
        stripped == StripToks(response)
    IN  IF opens # {} /\ closes # {}
        THEN [code |-> SubSeq(response, first + 1, close - 1)]
        ELSE IF Len(stripped) > 0 /\ stripped[1].t = "def"
        THEN [code |-> stripped]
        ELSE NoRecord

\* AgenticPlanner.plan(scene, connection) when the oracle call ends in `outcome`
\* and uuid4 gives `uuid`: the TestPlan, or the exception that leaves the call.
\* `if not test_code` holds for None and for the empty string.
planner_plan(scene, outcome, uuid) ==
    IF IsRaised(outcome) THEN outcome
    ELSE LET test_code == _extract_code(outcome.text)
             fallback == IF test_code = NoRecord THEN TRUE ELSE test_code.code = << >>
         IN  TestPlan(uuid, scene.id, scene.title,
                      IF fallback THEN TestCode("fallback", scene.id)
                      ELSE TestCode("planner", scene.id))

(***************************************************************************)
(* engine/explorer.py: EdgeExplorer.explore.                               *)
(***************************************************************************)
\* _suggest_edge_cases: edge_cases[:8] on whatever json.loads returned (the
\* empty list after a JSONDecodeError), or the exception that leaves the
\* call; slicing anything but a list or a string raises
_suggest_edge_cases(outcome) ==
    LET Caught(loaded) == IF IsRaised(loaded) THEN JList(<< >>) ELSE loaded
        Slice(cases) ==
            CASE cases.k = "list" -> JList(Take(cases.items, EdgeCap))
              [] cases.k = "str" -> cases
              [] OTHER -> Raised("TypeError")
    IN  IF IsRaised(outcome) THEN outcome
        ELSE Slice(Caught(LoadsMatchOrText(outcome.text, "[", "]")))

\* str(v) of a JSON value inside an f-string
FormatValue(v) == IF v.k \in {"str", "num", "lit"} THEN v.v ELSE v.k

\* a synthesis that extends the original scene's own tag list
_create_edge_case_scene_extending_tags(original_scene, edge_case_spec, uuid) ==
    IF edge_case_spec.k # "dict" THEN Raised("AttributeError")
    ELSE LET name == DictGet(edge_case_spec, "name", JScalar("str", "Edge Case"))
             priority == DictGet(edge_case_spec, "priority", JScalar("str", "medium"))
             tags == original_scene.tags
                        \o <<"edge-case", <<"priority-", FormatValue(priority)>>>>
         IN  [scene |->
                [id |-> uuid,
                 title |-> original_scene.title \o <<"-", FormatValue(name)>>,
                 actor |-> original_scene.actor,
                 steps |-> IF Len(original_scene.steps) = 0 THEN << >>
                           ELSE original_scene.steps,
                 assertions |-> IF Len(original_scene.assertions) = 0 THEN << >>
                                ELSE original_scene.assertions,
                 tags |-> tags,
                 priority |-> original_scene.priority,
                 metadata |->
                    [edge_case_type |->
                        DictGet(edge_case_spec, "name", JScalar("str", "unknown")),
                     strategy |-> DictGet(edge_case_spec, "strategy", JScalar("str", "")),
                     original_scene_id |-> original_scene.id]],
              original_scene |-> [original_scene EXCEPT !.tags = tags]]

\* _create_edge_case_scene(original_scene, edge_case_spec): the new Scene and
\* the original as the call leaves it, or the exception raised.  tags is a
\* new list (original_scene.tags + [...]), steps and assertions are copies of
\* the lists when they hold an element and the defaults otherwise, metadata
\* is the new scene's own dict.
_create_edge_case_scene(original_scene, edge_case_spec, uuid) ==
    IF edge_case_spec.k # "dict" THEN Raised("AttributeError")
    ELSE LET name == DictGet(edge_case_spec, "name", JScalar("str", "Edge Case"))
             priority == DictGet(edge_case_spec, "priority", JScalar("str", "medium"))
         IN  [scene |->
                [id |-> uuid,
                 title |-> original_scene.title \o <<"-", FormatValue(name)>>,
                 actor |-> original_scene.actor,
                 steps |-> IF Len(original_scene.steps) = 0 THEN << >>
                           ELSE original_scene.steps,
                 assertions |-> IF Len(original_scene.assertions) = 0 THEN << >>
                                ELSE original_scene.assertions,
                 tags |-> original_scene.tags
                            \o <<"edge-case", <<"priority-", FormatValue(priority)>>>>,
                 priority |-> original_scene.priority,
                 metadata |->
                    [edge_case_type |->
                        DictGet(edge_case_spec, "name", JScalar("str", "unknown")),
                     strategy |-> DictGet(edge_case_spec, "strategy", JScalar("str", "")),
                     original_scene_id |-> original_scene.id]],
              original_scene |-> original_scene]

\* explore(scene, initial_result, connection): [scenes |-> the generated
\* scenes, scene |-> the scene argument as the call leaves it], or the
\* exception that leaves the call; the j-th scene gets the uuid after
\* `drawn` + j - 1 earlier ones
explore(scene, initial_result, outcome, drawn) ==
    LET Scenes(items) ==
            LET made == [j \in 1..Len(items) |->
                           _create_edge_case_scene(scene, items[j], Uuid(drawn + j))]
            IN  IF \E j \in 1..Len(items) : IsRaised(made[j])
                THEN Raised("AttributeError")
                ELSE [scenes |-> [j \in 1..Len(items) |-> made[j].scene],
                      scene |-> IF Len(items) = 0 THEN scene
                                ELSE made[Len(items)].original_scene]
        \* for suggestion in edge_case_suggestions: the items of a list, the
        \* characters of a string
        Loop(suggestions) ==
            IF IsRaised(suggestions) THEN suggestions
            ELSE Scenes(IF suggestions.k = "list" THEN suggestions.items
                        ELSE IF suggestions.v = "" THEN << >>
                        ELSE <<JScalar("str", suggestions.v)>>)
    IN  IF ~initial_result.passed THEN [scenes |-> << >>, scene |-> scene]
        ELSE Loop(_suggest_edge_cases(outcome))

(***************************************************************************)
(* agents/healer.py: SelfHealer.diagnose and SelfHealer.heal.              *)
(***************************************************************************)
Diagnosis(test_id, root_cause, failure_type, is_flaky, suggested_fixes) ==
    [test_id |-> test_id, root_cause |-> root_cause, failure_type |-> failure_type,
     is_flaky |-> is_flaky, suggested_fixes |-> suggested_fixes]

\* pydantic: the value is accepted for a bool field
ValidBool(v) ==
    \/ v.k = "lit" /\ v.v \in {"true", "false"}
    \/ v.k = "num" /\ v.v \in {"0", "1"}
    \/ v.k = "str" /\ v.v \in {"true", "false"}
BoolOf(v) == v.v \in {"true", "1"}

\* pydantic: the value is accepted for a list[str] field
ValidStrList(v) ==
    IF v.k # "list" THEN FALSE
    ELSE \A i \in 1..Len(v.items) : v.items[i].k = "str"

\* diagnose(failure): the Diagnosis, or the exception that leaves the call
diagnose(failure, outcome) ==
    LET \* the dictionary of the except json.JSONDecodeError clause
        default == JDict(<<"root_cause", "failure_type", "is_flaky", "suggested_fixes">>,
                         <<JScalar("str", "Unknown"), JScalar("str", "error"),
                           JScalar("lit", "false"),
                           JList(<<JScalar("str", "Review test code and error message")>>)>>)
        Caught(loaded) == IF IsRaised(loaded) THEN default ELSE loaded
        Build(d) ==
            LET root_cause == DictGet(d, "root_cause", JScalar("str", "Unknown"))
                failure_type == DictGet(d, "failure_type", JScalar("str", "error"))
                is_flaky == DictGet(d, "is_flaky", JScalar("lit", "false"))
                suggested_fixes == DictGet(d, "suggested_fixes", JList(<< >>))
            IN  IF d.k # "dict" THEN Raised("AttributeError")
                ELSE IF \/ root_cause.k # "str" \/ failure_type.k # "str"
                        \/ ~ValidBool(is_flaky) \/ ~ValidStrList(suggested_fixes)
                THEN Raised("ValidationError")
                ELSE Diagnosis(failure.plan_id, root_cause.v, failure_type.v,
                               BoolOf(is_flaky),
                               [i \in 1..Len(suggested_fixes.items) |->
                                   suggested_fixes.items[i].v])
    IN  IF IsRaised(outcome) THEN outcome
        ELSE Build(Caught(LoadsMatchOrText(outcome.text, "{", "}")))

\* heal(diagnosis, test_code): the healed code, or the exception that leaves the call
heal(diagnosis, test_code, outcome) ==
    IF IsRaised(outcome) THEN outcome
    ELSE TestCode("healer", test_code.scene_id)

(***************************************************************************)
(* judges/base.py: SemanticJudge.judge.                                    *)
(***************************************************************************)
\* JudgmentResult(passed, score, reasoning); scores are in tenths
JudgmentResult(passed, score, reasoning) ==
    [passed |-> passed, score |-> score, reasoning |-> reasoning]

\* float(x) succeeds
ValidFloat(v) ==
    \/ v.k = "num"
    \/ v.k = "lit" /\ v.v \in {"true", "false"}
\* float(x) in tenths
FloatOf(v) ==
    CASE v.v \in {"1", "true"} -> 10
      [] v.v = "0.5" -> 5
      [] v.v = "7" -> 70
      [] OTHER -> 0

\* a semantic judgment whose except clause returns a passing judgment
_judge_semantic_silent_pass(outcome) ==
    LET Build(loaded) ==
            LET passed == DictGet(loaded, "passed", JScalar("lit", "false"))
                score == DictGet(loaded, "score", JScalar("num", "0"))
                reasoning == DictGet(loaded, "reasoning",
                                     JScalar("str", "No reasoning provided"))
                suggestions == DictGet(loaded, "suggestions", JList(<< >>))
            IN  IF IsRaised(loaded) THEN JudgmentResult(TRUE, 10, "No reasoning provided")
                ELSE IF loaded.k # "dict" THEN JudgmentResult(TRUE, 10, "No reasoning provided")
                ELSE IF \/ ~ValidFloat(score) \/ ~ValidBool(passed)
                        \/ reasoning.k # "str" \/ ~ValidStrList(suggestions)
                THEN JudgmentResult(TRUE, 10, "No reasoning provided")
                ELSE JudgmentResult(BoolOf(passed), FloatOf(score), reasoning.v)
    IN  IF IsRaised(outcome) THEN JudgmentResult(TRUE, 10, "No reasoning provided")
        ELSE Build(LoadsMatchOrText(outcome.text, "{", "}"))

\* _judge_semantic(assertion, actual_response, context): the JudgmentResult,
\* or the RuntimeError the except clause raises
_judge_semantic(outcome) ==
    LET Build(loaded) ==
            LET passed == DictGet(loaded, "passed", JScalar("lit", "false"))
                score == DictGet(loaded, "score", JScalar("num", "0"))
                reasoning == DictGet(loaded, "reasoning",
                                     JScalar("str", "No reasoning provided"))
                suggestions == DictGet(loaded, "suggestions", JList(<< >>))
            IN  IF IsRaised(loaded) THEN Raised("RuntimeError")
                ELSE IF loaded.k # "dict" THEN Raised("RuntimeError")
                ELSE IF \/ ~ValidFloat(score) \/ ~ValidBool(passed)
                        \/ reasoning.k # "str" \/ ~ValidStrList(suggestions)
                THEN Raised("RuntimeError")
                ELSE JudgmentResult(BoolOf(passed), FloatOf(score), reasoning.v)
    IN  IF IsRaised(outcome) THEN Raised("RuntimeError")
        ELSE Build(LoadsMatchOrText(outcome.text, "{", "}"))

\* Assertion(type, expected, tolerance); tolerance in tenths, NoRecord for None
AssertionOf(type, expected, tolerance) ==
    [type |-> type, expected |-> expected, tolerance |-> tolerance]

\* _judge_status_code(assertion, actual_response) on a bare status
_judge_status_code(assertion, actual) ==
    JudgmentResult(actual = assertion.expected,
                   IF actual = assertion.expected THEN 10 ELSE 0, "Status code")

\* _judge_body_contains(assertion, actual_response) on a bare body
_judge_body_contains(assertion, body) ==
    JudgmentResult(Contains(body, assertion.expected),
                   IF Contains(body, assertion.expected) THEN 10 ELSE 0,
                   "Body contains check")

\* _judge_response_time(assertion, actual_response) on a bare duration, in
\* whole seconds; the score of a failed judgment is
\* max(0.0, 1.0 - duration / (expected * 2)), here in tenths rounded up
_judge_response_time(assertion, duration) ==
    LET expected == assertion.expected
        tolerance == IF assertion.tolerance = NoRecord THEN 1
                     ELSE IF assertion.tolerance.tenths = 0 THEN 1
                     ELSE assertion.tolerance.tenths
        passed == 10 * duration <= expected * (10 + tolerance)
        lost == (10 * duration) \div (2 * expected)
    IN  IF passed THEN JudgmentResult(TRUE, 10, "Response time")
        ELSE IF expected = 0 THEN Raised("ZeroDivisionError")
        ELSE JudgmentResult(FALSE, IF lost > 10 THEN 0 ELSE 10 - lost, "Response time")

\* judge(assertion, actual_response, context) when the oracle call, if one is
\* made, ends in `outcome`
judge(assertion, actual_response, outcome) ==
    CASE assertion.type = "status_code" -> _judge_status_code(assertion, actual_response)
      [] assertion.type = "body_contains" -> _judge_body_contains(assertion, actual_response)
      [] assertion.type = "response_time" -> _judge_response_time(assertion, actual_response)
      [] assertion.type = "semantic" -> _judge_semantic(outcome)
      [] OTHER -> _judge_semantic(outcome)

(***************************************************************************)
(* The answers the oracle is drawn to give: up to MaxParts pieces, one     *)
(* after the other.                                                        *)
(***************************************************************************)
\* {"name": "s<j>"}, the first with "priority": "high" as well
SuggestionObject(j) ==
    LET name == CASE j = 1 -> "s1" [] j = 2 -> "s2" [] j = 3 -> "s3" [] j = 4 -> "s4"
                  [] j = 5 -> "s5" [] j = 6 -> "s6" [] j = 7 -> "s7" [] j = 8 -> "s8"
                  [] j = 9 -> "s9" [] OTHER -> "s"
    IN  IF j = 1
        THEN <<P("{"), TokStr("name"), P(":"), TokStr(name), P(","),
               TokStr("priority"), P(":"), TokStr("high"), P("}")>>
        ELSE <<P("{"), TokStr("name"), P(":"), TokStr(name), P("}")>>

RECURSIVE SuggestionItems(_)
SuggestionItems(n) ==
    IF n = 0 THEN << >>
    ELSE IF n = 1 THEN SuggestionObject(1)
    ELSE SuggestionItems(n - 1) \o <<P(",")>> \o SuggestionObject(n)

\* a JSON array of n suggestion objects
SuggestionList(n) == <<P("[")>> \o SuggestionItems(n) \o <<P("]")>>

FragProse == <<Tok("word", "Sorry")>>
FragNumberList == <<P("["), Tok("num", "1"), P("]")>>
FragDiagnosis ==
    <<P("{"), TokStr("root_cause"), P(":"), TokStr("slow"), P(","),
      TokStr("failure_type"), P(":"), TokStr("timeout"), P("}")>>
FragBareCode == <<Tok("def", "def test_"), Tok("code", "x():")>>
\* the opening fence of a python block with its newline, the code, the closing fence
FragFencedCode ==
    <<Tok("fence_open", "fence python")>> \o FragBareCode \o <<Tok("fence_close", "fence")>>

RECURSIVE Concat(_)
Concat(parts) == IF Len(parts) = 0 THEN << >> ELSE parts[1] \o Concat(Tail(parts))

\* the outcomes of one oracle call: an answer made of up to MaxParts pieces,
\* or an API error
OracleOutcomes ==
    LET Fragments ==
            {FragProse, <<Tok("ws", " ")>>, <<TokStr("text")>>, FragNumberList, <<P("]")>>,
             SuggestionList(1), SuggestionList(EdgeCap + 1), <<P("{"), P("}")>>,
             <<P("{"), TokStr("passed"), P(":"), Tok("lit", "true"), P("}")>>,
             <<P("{"), TokStr("score"), P(":"), Tok("num", "7"), P("}")>>,
             FragDiagnosis, <<P("{"), TokStr("root_cause"), P(":"), Tok("num", "1"), P("}")>>,
             FragFencedCode, <<Tok("fence_open", "fence python"), Tok("fence_close", "fence")>>,
             FragBareCode}
    IN  {Answer(Concat(parts)) : parts \in SeqsUpTo(Fragments, MaxParts)}
            \cup {Raised("APIError")}

(***************************************************************************)
(* The oracle-backed functions, each called on its own.                    *)
(***************************************************************************)
PlanCall ==
    /\ o_call = NoRecord
    /\ \E outcome \in OracleOutcomes :
        o_call' = [fn |-> "plan", scene |-> Scene(1), outcome |-> outcome,
                   result |-> planner_plan(Scene(1), outcome, Uuid(1))]
    /\ UNCHANGED <<timeout, cli_exit, schemaVars, connVars, execVars, batchVars, pipeVars, flakyVars>>

ExploreCall ==
    /\ o_call = NoRecord
    /\ \E outcome \in OracleOutcomes, passed \in BOOLEAN,
          max_edge_cases_per_scene \in {1, 8, 10},
          scene \in {Scene(1),
                     [Scene(1) EXCEPT !.steps = <<Step("GET")>>, !.tags = <<"smoke">>],
                     [Scene(1) EXCEPT
                        !.actor = [role |-> "admin", auth |-> NoRecord, persona |-> NoText],
                        !.steps = <<Step("POST"), Step("GET")>>,
                        !.assertions = <<AssertionOf("status_code", 200, NoRecord)>>,
                        !.tags = <<"smoke", "edge-case">>,
                        !.priority = "critical",
                        !.metadata = [owner |-> "qa"]]} :
        LET initial_result == ExecutionResult(Uuid(1), IF passed THEN "passed" ELSE "failed",
                                              passed)
        IN  o_call' = [fn |-> "explore", scene |-> scene,
                       \* the configuration of the runner that owns the explorer;
                       \* EdgeExplorer is constructed with the api key alone
                       max_edge_cases_per_scene |-> max_edge_cases_per_scene,
                       initial_result |-> initial_result, outcome |-> outcome,
                       suggestions |-> _suggest_edge_cases(outcome),
                       result |-> explore(scene, initial_result, outcome, 1)]
    /\ UNCHANGED <<timeout, cli_exit, schemaVars, connVars, execVars, batchVars, pipeVars, flakyVars>>

DiagnoseCall ==
    /\ o_call = NoRecord
    /\ \E outcome \in OracleOutcomes :
        LET failure == ExecutionResult(Uuid(1), "failed", FALSE)
        IN  o_call' = [fn |-> "diagnose", failure |-> failure, outcome |-> outcome,
                       result |-> diagnose(failure, outcome)]
    /\ UNCHANGED <<timeout, cli_exit, schemaVars, connVars, execVars, batchVars, pipeVars, flakyVars>>

JudgeCall ==
    /\ o_call = NoRecord
    /\ \/ \E type \in {"body_schema", "db_state", "header_contains", "semantic", "custom"},
             outcome \in OracleOutcomes :
            o_call' = [fn |-> "judge", assertion |-> AssertionOf(type, "ok", NoRecord),
                       asked |-> TRUE, outcome |-> outcome,
                       result |-> judge(AssertionOf(type, "ok", NoRecord), "response",
                                        outcome)]
       \/ \E actual \in {200, 500} :
            LET assertion == AssertionOf("status_code", 200, NoRecord)
            IN  o_call' = [fn |-> "judge", assertion |-> assertion, asked |-> FALSE,
                           outcome |-> NoRecord,
                           result |-> judge(assertion, actual, NoRecord)]
       \/ \E actual \in {LineOk, LineErrno, LineOk \o LineErrno} :
            LET assertion == AssertionOf("body_contains", LineOk, NoRecord)
            IN  o_call' = [fn |-> "judge", assertion |-> assertion, asked |-> FALSE,
                           outcome |-> NoRecord,
                           result |-> judge(assertion, actual, NoRecord)]
       \/ \E actual \in {1, 3, 5},
             tolerance \in {NoRecord, [tenths |-> 0], [tenths |-> 5]} :
            LET assertion == AssertionOf("response_time", 2, tolerance)
            IN  o_call' = [fn |-> "judge", assertion |-> assertion, asked |-> FALSE,
                           outcome |-> NoRecord,
                           result |-> judge(assertion, actual, NoRecord)]
    /\ UNCHANGED <<timeout, cli_exit, schemaVars, connVars, execVars, batchVars, pipeVars, flakyVars>>

(***************************************************************************)
(* runner.py: the quality judgment block of run_scene.                     *)
(***************************************************************************)
\* if result.response_data: neither None nor an empty dict
Truthy(response_data) ==
    IF response_data = NoRecord THEN FALSE ELSE response_data.keys # << >>

\* what judge_response_quality gives: a JudgmentResult with a score, or the
\* exception it raises on a check that lacks a key
QualityOutcomes ==
    {JudgmentResult(s = 10, s, "checks") : s \in {0, 5, 10}} \cup {Raised("KeyError")}

\* a judgment block that records a zero score when there is nothing to judge
QualityJudgmentZeroScore(cfg, result, quality) ==
    IF ~JudgeEnabled(cfg) THEN [metadata |-> result.metadata]
    ELSE IF Truthy(result.response_data)
    THEN IF IsRaised(quality) THEN quality
         ELSE [metadata |-> ("quality_score" :> [score |-> quality.score]) @@ result.metadata]
    ELSE [metadata |-> ("quality_score" :> [score |-> 0]) @@ result.metadata]

\* the block `if self.config.enable_quality_judgment:` of run_scene: the
\* metadata of the primary result after it, or the exception that leaves it.
\* A recorded score is [score |-> s]; a recorded None is NoRecord.
QualityJudgment(cfg, result, quality) ==
    IF ~JudgeEnabled(cfg) THEN [metadata |-> result.metadata]
    ELSE IF Truthy(result.response_data)
    THEN IF IsRaised(quality) THEN quality
         ELSE [metadata |-> ("quality_score" :> [score |-> quality.score]) @@ result.metadata]
    ELSE [metadata |-> ("quality_score" :> NoRecord) @@ result.metadata]

QualityBlockCall ==
    /\ o_call = NoRecord
    /\ \E cfg \in Configs, quality \in QualityOutcomes, passed \in BOOLEAN,
          response_data \in {NoRecord, JDict(<< >>, << >>),
                             JDict(<<"status">>, <<JScalar("num", "200")>>)} :
        LET result == [ExecutionResult(Uuid(1), IF passed THEN "passed" ELSE "failed", passed)
                         EXCEPT !.response_data = response_data]
        IN  o_call' = [fn |-> "quality", cfg |-> cfg, result |-> result,
                       quality |-> quality,
                       after |-> QualityJudgment(cfg, result, quality)]
    /\ UNCHANGED <<timeout, cli_exit, schemaVars, connVars, execVars, batchVars, pipeVars, flakyVars>>


SpecOracle ==
    IdleInit /\ [][PlanCall \/ ExploreCall \/ DiagnoseCall \/ JudgeCall \/ QualityBlockCall]_vars

(***************************************************************************)
(* runner.py: the actions of run and run_scene.                            *)
(***************************************************************************)
Event(stage, ev) == <<stage, ev>>
Stage(name) == <<Event(name, "start"), Event(name, "end")>>

\* a call raises and nothing in run_scene or run catches it: both end with
\* the exception e, raised in the given stage
Abort(e, stage) ==
    /\ r_pc' = "raised"
    /\ pc' = "aborted"
    /\ exc' = [raised |-> e.raised, stage |-> stage]

Init ==
    /\ timeout = DefaultTimeout
    /\ config \in Configs
    /\ Idle
    /\ BatchIdle
    /\ ConnIdle

\* run(scenes), up to the loop
RunCall ==
    /\ r_pc = "idle"
    /\ \E n \in 0..MaxScenes :
        /\ scenes' = [i \in 1..n |-> Scene(i)]
        /\ run_result' = RunResult(n)
    /\ r_pc' = "running"
    /\ idx' = 0
    /\ UNCHANGED <<timeout, cli_exit, schemaVars, connVars, flakyVars, o_call, execVars, batchVars, config, test_codes,
                   exc, sceneVars>>

\* a store that keeps the latest plan's code only
StoreCodeOfLatestPlan(codes, p) == p.id :> p.test_code

\* self.test_codes[plan.id] = plan.test_code
StoreCode(codes, p) == (p.id :> p.test_code) @@ codes

\* run_scene(scene) up to self.test_codes[plan.id] = plan.test_code
PlanStage ==
    /\ r_pc = "running" /\ pc = "none" /\ idx < Len(scenes)
    /\ LET scene == scenes[idx + 1]
           placeholder_result == ExecutionResult(<< >>, "error", FALSE)
       IN  /\ scene_result' = SceneResult(scene, placeholder_result)
           /\ calls' = [NoCalls EXCEPT !.plan = 1]
           /\ healed_plan' = NoRecord
           /\ edge_cases' = << >>
           /\ \E outcome \in {Answer(FragFencedCode), Answer(FragProse), Raised("APIError")} :
              \E p \in {planner_plan(scene, outcome, Uuid(uuids + 1))} :
                    IF IsRaised(p)
                    THEN /\ Abort(p, "Plan")
                         /\ trace' = <<Event("Plan", "start")>>
                         /\ UNCHANGED <<plan, test_codes, uuids>>
                    ELSE /\ plan' = p
                         /\ uuids' = uuids + 1
                         /\ test_codes' = StoreCode(test_codes, p)
                         /\ trace' = Stage("Plan")
                         /\ pc' = "execute"
                         /\ UNCHANGED <<r_pc, exc>>
    /\ UNCHANGED <<timeout, cli_exit, schemaVars, connVars, flakyVars, o_call, execVars, batchVars, config, scenes,
                   idx, run_result, executing>>

\* result = self.executor.execute(plan): the call
ExecuteStart ==
    /\ r_pc = "running" /\ pc = "execute"
    /\ executing' = plan.id
    /\ trace' = Append(trace, Event("Execute", "start"))
    /\ pc' = "executing"
    /\ UNCHANGED <<timeout, cli_exit, schemaVars, connVars, flakyVars, o_call, execVars, batchVars, runVars, plan, healed_plan,
                   edge_cases, scene_result, uuids, calls>>

\* ... and its return, up to scene_result.passed = result.passed
ExecuteFinish ==
    /\ r_pc = "running" /\ pc = "executing"
    /\ \E b \in PrimaryBehaviours :
        LET result == execute(plan, b, timeout)
        IN  /\ scene_result' = [scene_result EXCEPT !.execution_result = result,
                                                    !.passed = result.passed]
            /\ pc' = NextStage("Execute", config, result)
    /\ executing' = << >>
    /\ calls' = [calls EXCEPT !.execute = @ + 1]
    /\ trace' = Append(trace, Event("Execute", "end"))
    /\ UNCHANGED <<timeout, cli_exit, schemaVars, connVars, flakyVars, o_call, execVars, batchVars, runVars, plan, healed_plan,
                   edge_cases, uuids>>

\* the exploration block up to the call of execute_batch
ExploreStart ==
    /\ r_pc = "running" /\ pc = "explore"
    /\ trace' = Append(trace, Event("Explore", "start"))
    /\ LET result == scene_result.execution_result
           scene == scenes[idx + 1]
       IN  \E outcome \in
                 (IF result.passed
                  THEN {Answer(SuggestionList(n)) : n \in 0..MaxSuggest}
                         \cup {Answer(FragProse), Answer(FragNumberList),
                               Answer(<<P("{"), P("}")>>), Raised("APIError")}
                  ELSE {NoRecord}),
              plan_outcome \in {Answer(FragFencedCode), Raised("APIError")} :
          \E explored \in {explore(scene, result, outcome, uuids)} :
            LET asked == IF result.passed THEN 1 ELSE 0
            IN  IF IsRaised(explored)
                THEN \* the suggestion oracle or the handling of its answer raises
                     /\ Abort(explored, "Explore")
                     /\ calls' = [calls EXCEPT !.explore = @ + 1, !.suggest = @ + 1]
                     /\ UNCHANGED <<edge_cases, scene_result, uuids, batchVars>>
                ELSE LET k == Len(explored.scenes)
                         edge_plans == [j \in 1..k |->
                                          planner_plan(explored.scenes[j], plan_outcome,
                                                       Uuid(uuids + k + j))]
                     IN  /\ edge_cases' = explored.scenes
                         /\ scene_result' = [scene_result EXCEPT !.edge_cases_count = k]
                         /\ IF k > 0 /\ IsRaised(edge_plans[1])
                            THEN \* the planning oracle raises on the first edge case
                                 /\ Abort(edge_plans[1], "Explore")
                                 /\ uuids' = uuids + k
                                 /\ calls' = [calls EXCEPT !.explore = @ + 1,
                                                           !.suggest = @ + asked,
                                                           !.edge_plan = @ + 1]
                                 /\ UNCHANGED batchVars
                            ELSE \* every edge case is planned; execute_batch is called
                                 /\ BatchEnter(edge_plans, TRUE)
                                 /\ uuids' = uuids + 2 * k
                                 /\ calls' = [calls EXCEPT !.explore = @ + 1,
                                                           !.suggest = @ + asked,
                                                           !.edge_plan = @ + k,
                                                           !.execute_batch = @ + 1]
                                 /\ pc' = "exploring"
                                 /\ UNCHANGED <<r_pc, exc>>
    /\ UNCHANGED <<timeout, cli_exit, schemaVars, connVars, flakyVars, o_call, execVars, config, test_codes, scenes,
                   idx, run_result, plan, healed_plan, executing>>

\* execute_batch has returned: scene_result.edge_case_results = edge_results
ExploreFinish ==
    /\ r_pc = "running" /\ pc = "exploring" /\ b_pc = "returned"
    /\ scene_result' = [scene_result EXCEPT !.edge_case_results = b_results]
    /\ calls' = [calls EXCEPT !.edge_execute = @ + Len(b_completed)]
    /\ trace' = Append(trace, Event("Explore", "end"))
    /\ pc' = NextStage("Explore", config, scene_result.execution_result)
    /\ b_pc' = "idle"
    /\ b_parallel' = FALSE
    /\ b_plans' = << >>
    /\ b_behs' = << >>
    /\ b_next' = 0
    /\ b_running' = {}
    /\ b_futures' = << >>
    /\ b_completed' = << >>
    /\ b_results' = << >>
    /\ UNCHANGED <<timeout, cli_exit, schemaVars, connVars, flakyVars, o_call, execVars, runVars, plan, healed_plan, edge_cases,
                   executing, uuids>>

\* the healing block up to the call of execute for the healed plan
HealStart ==
    /\ r_pc = "running" /\ pc = "heal"
    /\ trace' = Append(trace, Event("Heal", "start"))
    /\ \E d_outcome \in {Answer(FragDiagnosis), Answer(FragProse),
                          Answer(FragNumberList), Raised("APIError")},
          h_outcome \in {Answer(FragBareCode), Raised("APIError")} :
      \E diagnosis \in {diagnose(scene_result.execution_result, d_outcome)} :
        LET healed_code == heal(diagnosis, test_codes[plan.id], h_outcome)
        IN  IF IsRaised(diagnosis)
            THEN \* the diagnosis oracle or the handling of its answer raises
                 /\ Abort(diagnosis, "Heal")
                 /\ calls' = [calls EXCEPT !.diagnose = @ + 1]
                 /\ UNCHANGED <<healed_plan, executing>>
            ELSE IF IsRaised(healed_code)
            THEN \* the healing oracle raises
                 /\ Abort(healed_code, "Heal")
                 /\ calls' = [calls EXCEPT !.diagnose = @ + 1, !.heal = @ + 1]
                 /\ UNCHANGED <<healed_plan, executing>>
            ELSE \* both answer: the healed plan is built and handed to execute
                 /\ healed_plan' = HealedPlan(plan, healed_code)
                 /\ executing' = healed_plan'.id
                 /\ calls' = [calls EXCEPT !.diagnose = @ + 1, !.heal = @ + 1]
                 /\ pc' = "healing"
                 /\ UNCHANGED <<r_pc, exc>>
    /\ UNCHANGED <<timeout, cli_exit, schemaVars, connVars, flakyVars, o_call, execVars, batchVars, config,
                   test_codes, scenes, idx, run_result, plan, edge_cases, scene_result,
                   uuids>>

\* a healing block that puts the healed result in the place of the primary one
RecordHealingOverPrimary(sr, healed_result) ==
    [sr EXCEPT !.execution_result = healed_result,
               !.healing_result = healed_result,
               !.passed = HealedVerdict(@, healed_result)]

\* scene_result.healing_result = healed_result
\* if healed_result.passed: scene_result.passed = True
RecordHealing(sr, healed_result) ==
    [sr EXCEPT !.healing_result = healed_result,
               !.passed = HealedVerdict(@, healed_result)]

\* the healed execution returns, up to the update of scene_result.passed
HealFinish ==
    /\ r_pc = "running" /\ pc = "healing"
    /\ \E b \in PrimaryBehaviours :
        scene_result' = RecordHealing(scene_result, execute(healed_plan, b, timeout))
    /\ executing' = << >>
    /\ calls' = [calls EXCEPT !.execute = @ + 1]
    /\ trace' = Append(trace, Event("Heal", "end"))
    /\ pc' = NextStage("Heal", config, scene_result.execution_result)
    /\ UNCHANGED <<timeout, cli_exit, schemaVars, connVars, flakyVars, o_call, execVars, batchVars, runVars, plan, healed_plan,
                   edge_cases, uuids>>

\* the quality judgment block
JudgeStage ==
    /\ r_pc = "running" /\ pc = "judge"
    /\ LET result == scene_result.execution_result
           asked == Truthy(result.response_data)
       IN  /\ \E quality \in (IF asked THEN QualityOutcomes ELSE {NoRecord}) :
                LET after == QualityJudgment(config, result, quality)
                IN  IF IsRaised(after)
                    THEN /\ Abort(after, "Judge")
                         /\ trace' = Append(trace, Event("Judge", "start"))
                         /\ UNCHANGED scene_result
                    ELSE /\ scene_result' =
                              [scene_result EXCEPT !.execution_result.metadata =
                                  after.metadata]
                         /\ trace' = trace \o Stage("Judge")
                         /\ pc' = "return"
                         /\ UNCHANGED <<r_pc, exc>>
           /\ calls' = [calls EXCEPT !.judge = IF asked THEN @ + 1 ELSE @]
    /\ UNCHANGED <<timeout, cli_exit, schemaVars, connVars, flakyVars, o_call, execVars, batchVars, config,
                   test_codes, scenes, idx, run_result, plan, healed_plan,
                   edge_cases, executing, uuids>>

\* the loop body of run after run_scene has returned scene_result
AccumulateCountingEveryScenePassed(result, sr) ==
    [result EXCEPT
        !.scene_results = Append(@, sr),
        !.passed = @ + 1,
        !.edge_cases_found = @ + sr.edge_cases_count]

Accumulate(result, sr) ==
    [result EXCEPT
        !.scene_results = Append(@, sr),
        !.passed = IF sr.passed THEN @ + 1 ELSE @,
        !.failed = IF sr.passed THEN @ ELSE @ + 1,
        !.edge_cases_found = @ + sr.edge_cases_count]

\* return scene_result, and the rest of the loop body of run
SceneReturn ==
    /\ r_pc = "running" /\ pc = "return"
    /\ run_result' = Accumulate(run_result, scene_result)
    /\ idx' = idx + 1
    /\ trace' = trace \o Stage("Done")
    /\ pc' = "none"
    /\ UNCHANGED <<timeout, cli_exit, schemaVars, connVars, flakyVars, o_call, execVars, batchVars, config, test_codes,
                   r_pc, scenes, exc, plan, healed_plan, edge_cases, scene_result,
                   executing, uuids, calls>>

\* the loop is over: return result
RunReturn ==
    /\ r_pc = "running" /\ pc = "none" /\ idx = Len(scenes)
    /\ r_pc' = "returned"
    /\ UNCHANGED <<timeout, cli_exit, schemaVars, connVars, flakyVars, o_call, execVars, batchVars, config, test_codes,
                   scenes, idx, run_result, exc, sceneVars>>

\* cli.py, the run command after qa.run(scenes): an exception that left
\* qa.run ends the process with exit code 1; raise typer.Exit(1) if
\* result.failed > 0; otherwise the command returns and the exit code is 0.
\* The command builds its RigourQAConfig from the exploration
\* and healing options and leaves enable_quality_judgment at its default.
CliExit ==
    /\ r_pc \in {"returned", "raised"}
    /\ config.enable_quality_judgment
    /\ cli_exit = NoRecord
    /\ cli_exit' = [code |-> IF r_pc = "raised" THEN 1
                              ELSE IF run_result.failed > 0 THEN 1
                              ELSE 0]
    /\ UNCHANGED <<timeout, schemaVars, connVars, flakyVars, o_call, execVars,
                   batchVars, pipeVars>>

\* the executions of the edge-case batch of the current scene
EdgeBatchStep ==
    /\ r_pc = "running" /\ pc = "exploring"
    /\ (WorkerStart \/ WorkerFinish \/ BatchReturn)

Next ==
    \/ RunCall
    \/ PlanStage
    \/ ExecuteStart
    \/ ExecuteFinish
    \/ ExploreStart
    \/ EdgeBatchStep
    \/ ExploreFinish
    \/ HealStart
    \/ HealFinish
    \/ JudgeStage
    \/ SceneReturn
    \/ RunReturn
    \/ CliExit

Spec == Init /\ [][Next]_vars

(***************************************************************************)
(* scene/schema.py and scene/builder.py: Scene and SceneBuilder.  A Scene  *)
(* is an object on the heap; the builder and its callers hold references   *)
(* to it.  Titles, descriptions and creation times are not modelled.       *)
(***************************************************************************)
\* Scene(id=id, title=..., description=...) with the field defaults
NewScene(id) ==
    [id |-> id, actor |-> NoRecord, steps |-> << >>, assertions |-> << >>,
     edge_cases |-> << >>, tags |-> << >>, priority |-> "medium", metadata |-> << >>]

\* a step put in front of the others
add_step_in_front(scene, action) ==
    [scene EXCEPT !.steps = <<Step(action)>> \o @]

\* Scene.add_step: self.steps.append(step)
add_step(scene, action) ==
    [scene EXCEPT !.steps = Append(@, Step(action))]

\* Scene.add_assertion: self.assertions.append(assertion)
add_assertion(scene, assertion_type) ==
    [scene EXCEPT !.assertions = Append(@, AssertionOf(assertion_type, 200, NoRecord))]

\* Scene.add_edge_case: self.edge_cases.append(description)
add_edge_case(scene, description) ==
    [scene EXCEPT !.edge_cases = Append(@, description)]

\* the with_ methods of SceneBuilder, applied to the scene the builder holds
with_(scene, op, arg) ==
    CASE op = "with_actor" ->
           [scene EXCEPT !.actor =
               [role |-> "user",
                auth |-> IF arg = NoText THEN NoRecord ELSE [type |-> arg, value |-> NoText],
                persona |-> NoText]]
      [] op = "with_priority" -> [scene EXCEPT !.priority = arg]
      [] op = "with_tags" -> [scene EXCEPT !.tags = @ \o arg]
      [] op = "with_step" -> add_step(scene, arg)
      [] op = "with_assertion" -> add_assertion(scene, arg)
      [] op = "with_edge_case" -> add_edge_case(scene, arg)
      [] op = "with_metadata" -> [scene EXCEPT !.metadata = (arg :> "value") @@ @]

\* a call in the log: the method, its argument, the object it was called on
\* and the object it returned
Call(op, arg, on, ret) == [op |-> op, arg |-> arg, on |-> on, ret |-> ret]

\* Scene(title=..., description=...), with an id (any text, the empty one
\* included) or without one: default_factory draws str(uuid4())
SceneNew ==
    /\ heap = << >> /\ sc_log = << >>
    /\ \E id \in {NoText, << >>, <<"s", "1">>} :
        /\ heap' = <<NewScene(IF id = NoText THEN Uuid(1) ELSE id)>>
        /\ sc_log' = <<Call("Scene", id, <<"Scene">>, <<"Scene", 1>>)>>
    /\ UNCHANGED <<timeout, cli_exit, connVars, flakyVars, o_call, execVars, batchVars,
                   pipeVars, _scene, built>>

\* SceneBuilder(title, description)
BuilderNew ==
    /\ heap = << >> /\ sc_log = << >>
    /\ heap' = <<NewScene(Uuid(1))>>
    /\ _scene' = 1
    /\ sc_log' = <<Call("SceneBuilder", NoText, <<"SceneBuilder">>, <<"SceneBuilder">>)>>
    /\ UNCHANGED <<timeout, cli_exit, connVars, flakyVars, o_call, execVars, batchVars,
                   pipeVars, built>>

\* scene.add_step(...), scene.add_assertion(...) or scene.add_edge_case(...)
AddCall ==
    /\ Len(sc_log) \in 1..MaxOps
    \* on a reference the caller holds: the scene it constructed, or one that
    \* build() returned
    /\ \E ref \in (IF _scene = 0 THEN DOMAIN heap
                    ELSE {built[i].ref : i \in 1..Len(built)}) :
        \/ \E action \in {"a1", "a2"} :
             /\ heap' = [heap EXCEPT ![ref] = add_step(@, action)]
             /\ sc_log' = Append(sc_log, Call("add_step", action, <<"Scene", ref>>,
                                              <<"Scene", ref>>))
        \/ /\ heap' = [heap EXCEPT ![ref] = add_assertion(@, "status_code")]
           /\ sc_log' = Append(sc_log, Call("add_assertion", "status_code",
                                            <<"Scene", ref>>, <<"Scene", ref>>))
        \/ /\ heap' = [heap EXCEPT ![ref] = add_edge_case(@, "e1")]
           /\ sc_log' = Append(sc_log, Call("add_edge_case", "e1", <<"Scene", ref>>,
                                            <<"Scene", ref>>))
    /\ UNCHANGED <<timeout, cli_exit, connVars, flakyVars, o_call, execVars, batchVars,
                   pipeVars, _scene, built>>

\* builder.with_actor(...), with_priority(...), ..., with_metadata(...)
WithCall ==
    /\ Len(sc_log) \in 1..MaxOps
    /\ _scene # 0
    /\ \E c \in {<<"with_actor", NoText>>, <<"with_actor", <<"basic">>>>,
                 <<"with_priority", "high">>, <<"with_tags", <<"auth">>>>,
                 <<"with_step", "a1">>, <<"with_step", "a2">>,
                 <<"with_assertion", "semantic">>, <<"with_edge_case", "e2">>,
                 <<"with_metadata", "key">>} :
        /\ heap' = [heap EXCEPT ![_scene] = with_(@, c[1], c[2])]
        /\ sc_log' = Append(sc_log, Call(c[1], c[2], <<"SceneBuilder">>,
                                         <<"SceneBuilder">>))
    /\ UNCHANGED <<timeout, cli_exit, connVars, flakyVars, o_call, execVars, batchVars,
                   pipeVars, _scene, built>>

\* builder.build(): return self._scene
BuildCall ==
    /\ Len(sc_log) \in 1..MaxOps
    /\ _scene # 0
    /\ built' = Append(built, [ref |-> _scene, scene |-> heap[_scene]])
    /\ sc_log' = Append(sc_log, Call("build", NoText, <<"SceneBuilder">>,
                                     <<"Scene", _scene>>))
    /\ UNCHANGED <<timeout, cli_exit, connVars, flakyVars, o_call, execVars, batchVars,
                   pipeVars, heap, _scene>>


SpecSchema == IdleInit /\ [][SceneNew \/ BuilderNew \/ AddCall \/ WithCall \/ BuildCall]_vars

(***************************************************************************)
(* connection.py: Connection.get_auth_header and Connection.get_headers.   *)
(* A text is a tuple of its pieces, so an f-string is a concatenation and  *)
(* str(None) is the piece "None"; a dict is a function from its keys.      *)
(***************************************************************************)
\* get_auth_header(): the header dict, or NoRecord for None
get_auth_header(self) ==
    IF self.auth_type \in {NoText, << >>} THEN NoRecord
    ELSE IF self.auth_type = <<"bearer">>
    THEN "Authorization" :> (<<"Bearer ">> \o self.auth_token)
    ELSE IF self.auth_type = <<"api_key">>
    THEN "X-API-Key" :> self.auth_token
    ELSE IF self.auth_type = <<"basic">>
    THEN LET credentials == <<"b64encode">> \o self.username \o <<":">> \o self.password
         IN  "Authorization" :> (<<"Basic ">> \o credentials)
    ELSE NoRecord

\* get_headers() updating the stored dict itself
get_headers_in_place(self) ==
    LET auth_header == get_auth_header(self)
        headers == IF auth_header # NoRecord THEN auth_header @@ self.headers
                   ELSE self.headers
    IN  [ret |-> headers, headers |-> headers]

\* get_headers(): [ret |-> the dict returned, headers |-> self.headers after
\* the call]; the update is made on a copy
get_headers(self) ==
    LET auth_header == get_auth_header(self)
        headers == self.headers
    IN  [ret |-> IF auth_header # NoRecord THEN auth_header @@ headers ELSE headers,
         headers |-> self.headers]

\* conn.get_headers() on the connection as constructed
GetHeadersCall ==
    /\ h_call = NoRecord
    /\ \E r \in {get_headers(connection)} :
        /\ h_call' = [on |-> connection, auth_header |-> get_auth_header(connection),
                      ret |-> r.ret]
        /\ connection' = [connection EXCEPT !.headers = r.headers]
    /\ UNCHANGED <<timeout, cli_exit, schemaVars, execVars, batchVars, pipeVars, flakyVars,
                   o_call>>

\* a Connection constructed with any of the auth types, with and without
\* token and credentials, and any default headers
ConnInit ==
    /\ timeout = DefaultTimeout
    /\ config = DefaultConfig
    /\ Idle
    /\ BatchIdle
    /\ h_call = NoRecord
    /\ \E auth_type \in {NoText, << >>, <<"bearer">>, <<"api_key">>, <<"basic">>,
                          <<"oauth">>, <<"Bearer">>},
          auth_token \in {NoText, <<"token_xyz">>},
          credentials \in {<<NoText, NoText>>, <<(<<"user">>), (<<"pass">>)>>},
          names \in SUBSET {"User-Agent", "Authorization", "X-API-Key", "authorization"} :
        connection = Connection(auth_type, auth_token, credentials[1], credentials[2],
                                [name \in names |-> <<"default ", name>>])

SpecConn == ConnInit /\ [][GetHeadersCall]_vars

(***************************************************************************)
(* The artifacts of execute: the files it leaves in the temporary          *)
(* directory, with any number of execute calls in progress at once.        *)
(***************************************************************************)
MaxExecs == 3

\* a file opened for writing under a name taken without looking at the directory
NamedFile(dir) == {<<"tmp", n, ".py">> : n \in 1..MaxExecs}

\* tempfile.NamedTemporaryFile(suffix='.py', delete=False, dir=gettempdir()):
\* the names it can create the file under, a random name no file of the
\* directory has (the file is opened exclusively, another name is drawn on a clash)
NamedTemporaryFile(dir) == {<<"tmp", n, ".py">> : n \in 1..MaxExecs} \ DOMAIN dir

\* execute up to the end of its with block: the temporary file is created and
\* plan.test_code written to it; creating or writing may fail
ArtifactCreate ==
    /\ Len(executions) < MaxExecs
    /\ \E fault \in {"none", "create", "write"} :
        LET i == Len(executions) + 1
            k == 1 + (i % 2)
            p == TestPlan(<<"plan", k>>, "scene", "title", <<"code", k>>)
            failed == [plan |-> p, test_file |-> NoText, pc |-> "returned",
                       created |-> IF fault = "create" THEN 0 ELSE 1,
                       b |-> Behaviour(fault, 0, << >>), ran |-> NoRecord,
                       result |-> execute(p, Behaviour(fault, 0, << >>), timeout)]
        IN  CASE fault = "create" ->
                   /\ executions' = Append(executions, failed)
                   /\ UNCHANGED tmpdir
              [] fault = "write" ->
                   \E path \in NamedTemporaryFile(tmpdir) :
                       /\ tmpdir' = (path :> [content |-> << >>, by |-> i]) @@ tmpdir
                       /\ executions' = Append(executions, failed)
              [] OTHER ->
                   \E path \in NamedTemporaryFile(tmpdir) :
                       /\ tmpdir' = (path :> [content |-> p.test_code, by |-> i]) @@ tmpdir
                       /\ executions' = Append(executions,
                              [plan |-> p, test_file |-> path, pc |-> "written",
                               created |-> 1,
                               b |-> NoRecord, ran |-> NoRecord, result |-> NoRecord])
    /\ UNCHANGED <<ex_plan, ex_beh, ex_result, timeout, cli_exit, schemaVars, connVars,
                   flakyVars, o_call, batchVars, pipeVars>>

\* subprocess.run([python, -m, pytest, test_file, ...], timeout=self.timeout):
\* the process runs the file its test_file names; it cannot be started, is
\* stopped at the timeout, its output cannot be decoded, or it exits
ProcessRun ==
    /\ \E i \in 1..Len(executions), f \in {"none", "spawn", "read", "timeout"} :
        LET e == executions[i]
            b == Behaviour(f, 0, << >>)
            file == IF e.test_file \in DOMAIN tmpdir
                    THEN tmpdir[e.test_file]
                    ELSE [content |-> NoText, by |-> 0]
        IN  /\ e.pc = "written"
            /\ executions' =
                 [executions EXCEPT ![i] =
                     [e EXCEPT !.b = b,
                               !.ran = IF f = "spawn" THEN NoRecord ELSE file,
                               !.pc = IF f = "none" THEN "exited" ELSE "returned",
                               !.result = IF f = "none" THEN NoRecord
                                          ELSE execute(e.plan, b, timeout)]]
    /\ UNCHANGED <<tmpdir, ex_plan, ex_beh, ex_result, timeout, cli_exit, schemaVars,
                   connVars, flakyVars, o_call, batchVars, pipeVars>>

\* an unlink that never removes the file
ArtifactUnlinkKeepingFile ==
    /\ \E i \in 1..Len(executions), fault \in {"none", "unlink"} :
        LET e == executions[i]
            b == Behaviour(fault, e.b.rc, e.b.out)
        IN  /\ e.pc = "exited"
            /\ tmpdir' = tmpdir
            /\ executions' =
                 [executions EXCEPT ![i] =
                     [e EXCEPT !.b = b, !.pc = "returned",
                               !.result = execute(e.plan, b, timeout)]]
    /\ UNCHANGED <<ex_plan, ex_beh, ex_result, timeout, cli_exit, schemaVars, connVars,
                   flakyVars, o_call, batchVars, pipeVars>>

\* Path(test_file).unlink(missing_ok=True), the last statement of the try
\* block, and the return of execute
ArtifactUnlink ==
    /\ \E i \in 1..Len(executions), fault \in {"none", "unlink"} :
        LET e == executions[i]
            b == Behaviour(fault, e.b.rc, e.b.out)
        IN  /\ e.pc = "exited"
            /\ tmpdir' = IF fault = "unlink" THEN tmpdir
                         ELSE [path \in DOMAIN tmpdir \ {e.test_file} |-> tmpdir[path]]
            /\ executions' =
                 [executions EXCEPT ![i] =
                     [e EXCEPT !.b = b, !.pc = "returned",
                               !.result = execute(e.plan, b, timeout)]]
    /\ UNCHANGED <<ex_plan, ex_beh, ex_result, timeout, cli_exit, schemaVars, connVars,
                   flakyVars, o_call, batchVars, pipeVars>>

SpecFiles == IdleInit /\ [][ArtifactCreate \/ ProcessRun \/ ArtifactUnlink]_vars

(***************************************************************************)
(* Properties of the pipeline (Spec).                                      *)
(***************************************************************************)
\* run_scene has returned for the scene run last started
SceneDone == r_pc \in {"running", "returned"} /\ pc = "none" /\ idx > 0

\* the scene results handed out so far: those stored by run and the one just returned
SceneResultsSoFar ==
    (IF run_result = NoRecord THEN {}
     ELSE {run_result.scene_results[i] : i \in 1..Len(run_result.scene_results)})
      \cup (IF pc = "return" THEN {scene_result} ELSE {})

Healed(sr) == sr.healing_result # NoRecord

\* C1: the SceneResult of every scene run has passed = true exactly when the
\* primary execution passed, or healing ran and the healed execution passed;
\* a failed healing leaves the scene failed and no edge-case result counts.
C1_VerdictIsPrimaryOrHealed ==
    \A sr \in SceneResultsSoFar :
        sr.passed <=> (sr.execution_result.passed
                         \/ (Healed(sr) /\ sr.healing_result.passed))

\* a run returned one scene that passed with a failing edge case and one
\* that stayed failed after a healing attempt that failed
C1_Witness ==
    /\ r_pc = "returned"
    /\ \E sr \in SceneResultsSoFar :
        /\ sr.passed
        /\ \E e \in 1..Len(sr.edge_case_results) : ~sr.edge_case_results[e].passed
    /\ \E sr \in SceneResultsSoFar :
        /\ ~sr.passed
        /\ Healed(sr) /\ ~sr.healing_result.passed

Started(stage) == \E k \in 1..Len(trace) : trace[k] = Event(stage, "start")

\* C2: while the primary execution has not passed, exploration is skipped
\* even when configured on: the Explore stage does not start, explorer.explore
\* and execute_batch are not called, no suggestion is requested, no edge-case
\* plan is planned or executed, and edge_case_results is empty with
\* edge_cases_count = 0; exploration only runs when it is configured on and
\* the primary execution passed.
C2_NoExplorationUnlessPrimaryPassed ==
    /\ (scene_result # NoRecord /\ ~scene_result.execution_result.passed) =>
          /\ ~Started("Explore")
          /\ calls.explore = 0 /\ calls.suggest = 0 /\ calls.edge_plan = 0
          /\ calls.execute_batch = 0 /\ calls.edge_execute = 0
          /\ b_pc = "idle" /\ b_running = {} /\ b_completed = << >>
          /\ scene_result.edge_case_results = << >>
          /\ scene_result.edge_cases_count = 0
    /\ (Started("Explore") \/ calls.suggest > 0) =>
          /\ config.enable_edge_case_exploration
          /\ scene_result.execution_result.passed
    /\ \A sr \in SceneResultsSoFar :
          ~sr.execution_result.passed =>
              sr.edge_case_results = << >> /\ sr.edge_cases_count = 0

\* a scene run has returned with exploration configured on and a primary
\* execution that ran and did not pass
C2_Witness ==
    /\ SceneDone
    /\ config.enable_edge_case_exploration
    /\ calls.execute >= 1
    /\ scene_result.execution_result.status = "failed"
    /\ ~scene_result.execution_result.passed

StageRank(stage) ==
    CASE stage = "Plan" -> 1 [] stage = "Execute" -> 2 [] stage = "Explore" -> 3
      [] stage = "Heal" -> 4 [] stage = "Judge" -> 5 [] stage = "Done" -> 6

\* the enabling condition of a stage, as the claim states it
StageCondition(stage) ==
    CASE stage = "Explore" ->
           config.enable_edge_case_exploration /\ scene_result.execution_result.passed
      [] stage = "Heal" ->
           config.enable_healing /\ ~scene_result.execution_result.passed
      [] stage = "Judge" -> config.enable_quality_judgment
      [] OTHER -> TRUE

\* C3: within one scene run the stages occur in the order Plan, Execute,
\* Explore, Heal, Judge, Done: a stage starts only after the previous one has
\* ended, none starts twice, a stage runs only when its enabling condition
\* holds and is skipped only when it does not; and the run performs at most
\* two non-edge-case executions, the second one by the healing attempt.
C3_StagesInOrderAtMostOnce ==
    /\ \A k \in 1..Len(trace) :
        /\ (k % 2 = 1) => trace[k][2] = "start"
        /\ (k % 2 = 0) => trace[k][2] = "end" /\ trace[k][1] = trace[k - 1][1]
        /\ (k % 2 = 1 /\ k >= 3) => StageRank(trace[k][1]) > StageRank(trace[k - 2][1])
    /\ \A s \in {"Explore", "Heal", "Judge", "Done"} :
        Started(s) =>
            /\ StageCondition(s)
            /\ \A t \in {"Plan", "Execute", "Explore", "Heal", "Judge"} :
                  (StageRank(t) < StageRank(s) /\ StageCondition(t)) =>
                      Event(t, "end") \in {trace[k] : k \in 1..Len(trace)}
    /\ calls.plan <= 1 /\ calls.diagnose <= 1 /\ calls.heal <= 1
    /\ calls.explore <= 1 /\ calls.execute_batch <= 1
    /\ calls.execute <= 2
    /\ calls.execute = 2 => Started("Heal")

\* a scene run went through Plan, Execute, Heal, Judge and Done with two executions
C3_Witness ==
    /\ SceneDone
    /\ trace = Stage("Plan") \o Stage("Execute") \o Stage("Heal") \o Stage("Judge")
                 \o Stage("Done")
    /\ calls.execute = 2

\* C4: when the primary execution fails, healing is enabled and the healed
\* execution passes, the SceneResult has passed = true, execution_result is
\* still the failing result of the primary plan, and healing_result is the
\* passing result of the healed plan, whose id is the primary plan's id with
\* the suffix _healed (so a different id) and whose scene id is the same.
C4_HealedSceneKeepsBothResults ==
    /\ (/\ scene_result # NoRecord
        /\ Healed(scene_result)
        /\ scene_result.healing_result.passed) =>
          /\ config.enable_healing
          /\ scene_result.passed
          /\ ~scene_result.execution_result.passed
          /\ scene_result.execution_result.status # "passed"
          /\ scene_result.execution_result.plan_id = plan.id
          /\ scene_result.healing_result.status = "passed"
          /\ scene_result.healing_result.plan_id = healed_plan.id
          /\ healed_plan.id = plan.id \o <<"_healed">>
          /\ healed_plan.id # plan.id
          /\ healed_plan.scene_id = plan.scene_id
          /\ healed_plan.scene_id = scene_result.scene_id
    /\ \A sr \in SceneResultsSoFar :
          (Healed(sr) /\ sr.healing_result.passed) =>
              /\ sr.passed
              /\ ~sr.execution_result.passed
              /\ sr.healing_result.plan_id # sr.execution_result.plan_id
              /\ sr.healing_result.plan_id = sr.execution_result.plan_id \o <<"_healed">>

\* a scene run has returned whose primary execution failed and whose healed
\* execution passed
C4_Witness ==
    /\ SceneDone
    /\ ~scene_result.execution_result.passed
    /\ Healed(scene_result)
    /\ scene_result.healing_result.passed
    /\ scene_result.passed

(***************************************************************************)
(* Properties of execute_batch (SpecBatch).                                *)
(***************************************************************************)
\* C5: for every list of N plans, parallel or not, and every order in which
\* the executions finish, execute_batch returns exactly N results and
\* result[i].plan_id = plans[i].id for every i.
C5_BatchKeepsInputOrder ==
    b_pc = "returned" =>
        /\ Len(b_results) = Len(b_plans)
        /\ \A i \in 1..Len(b_plans) : b_results[i].plan_id = b_plans[i].id

\* a parallel batch has returned whose executions finished out of input order
C5_Witness ==
    /\ b_pc = "returned" /\ b_parallel
    /\ Len(b_plans) = MaxPlans
    /\ \E k \in 1..(Len(b_completed) - 1) : b_completed[k] > b_completed[k + 1]

\* C6: in parallel mode at most 4 executions are in progress at any moment;
\* with more than 4 plans, plan k (k > 4) is taken up only after k - 4
\* executions have finished.
C6_AtMostFourInProgress ==
    b_parallel =>
        /\ Cardinality(b_running) <= 4
        /\ b_next <= Len(b_completed) + 4

\* four executions are in progress and a fifth plan is waiting
C6_Witness ==
    /\ b_parallel
    /\ Cardinality(b_running) = 4
    /\ b_next < Len(b_plans)

\* C7: in a parallel batch a timeout or exception in the execution of plan i
\* makes result[i] an error result and touches no other slot: the call
\* returns (it never raises), with N results, and every result[j] is what
\* the execution of plan j yields on its own.
C7_FailureStaysInItsSlot ==
    /\ b_pc # "raised"
    /\ (b_pc = "returned" /\ b_parallel) =>
        /\ Len(b_results) = Len(b_plans)
        /\ \A j \in 1..Len(b_plans) :
            /\ b_results[j].plan_id = b_plans[j].id
            /\ b_behs[j].fault = "none" =>
                  b_results[j].passed = (b_behs[j].rc = 0)
            /\ b_behs[j].fault # "none" =>
                  b_results[j].status = "error" /\ ~b_results[j].passed

\* a parallel batch has returned in which one execution timed out, one raised
\* and one passed
C7_Witness ==
    /\ b_pc = "returned" /\ b_parallel
    /\ \E i, j, k \in 1..Len(b_plans) :
        /\ b_behs[i].fault = "timeout" /\ b_results[i].status = "error"
        /\ b_behs[j].fault = "spawn" /\ b_results[j].status = "error"
        /\ b_behs[k].fault = "none" /\ b_results[k].passed

(***************************************************************************)
(* Properties of execute (SpecExec).                                       *)
(***************************************************************************)
\* the captured output holds an 'N error' counter or the word error in any letter case
OutputNamesError(out) ==
    \/ \E i \in 1..Len(out), j \in 1..Len(out) :
          /\ i <= j
          /\ \A k \in i..j : out[k] \in Digits
          /\ j + 6 <= Len(out)
          /\ SubSeq(out, j + 1, j + 6) = <<" ", "e", "r", "r", "o", "r">>
    \/ \E i \in 1..Len(out) :
          /\ i + 4 <= Len(out)
          /\ \A k \in 0..4 : LowerChar(out[i + k]) = WordError[k + 1]

\* C8: every result execute returns, on every path (normal completion, error
\* text override, timeout, other exception), has status = passed exactly when
\* passed is true, and never the status skipped.
C8_StatusAgreesWithPassed ==
    ex_result # NoRecord =>
        /\ (ex_result.status = "passed") <=> ex_result.passed
        /\ ex_result.status # "skipped"
        /\ ex_result.status \in {"passed", "failed", "error", "skipped"}

\* an execution that timed out has returned its error result
C8_Witness ==
    /\ ex_result # NoRecord
    /\ ex_beh.fault = "timeout"
    /\ ex_result.status = "error"

C11_TimeoutGivesErrorNamingTimeout ==
    (ex_result # NoRecord /\ ex_beh.fault = "timeout") =>
        /\ ~IsRaised(ex_result)
        /\ ex_result.plan_id = ex_plan.id
        /\ ex_result.status = "error" /\ ~ex_result.passed
        /\ ex_result.error_message # NoText
        /\ \E i \in 1..Len(ex_result.error_message), j \in 1..Len(ex_result.error_message) :
              LET msg == ex_result.error_message
              IN  /\ i <= j
                  /\ \A k \in i..j : msg[k] \in Digits
                  /\ (i > 1 => msg[i - 1] \notin Digits)
                  /\ (j < Len(msg) => msg[j + 1] \notin Digits)
                  /\ DecimalValue(SubSeq(msg, i, j)) = timeout

\* an execution under a timeout other than the default has timed out and returned
C11_Witness ==
    /\ ex_result # NoRecord
    /\ ex_beh.fault = "timeout"
    /\ timeout # DefaultTimeout
    /\ ex_result.status = "error"

\* C12: no exception leaves execute: a failure while writing the artifact,
\* spawning the process or reading its output gives a returned result with
\* status = error, passed = false and error_message equal to the text of the
\* exception.
C12_ExceptionBecomesErrorResult ==
    ex_result # NoRecord =>
        /\ ~IsRaised(ex_result)
        /\ ex_result.plan_id = ex_plan.id
        /\ ex_beh.fault \in {"write", "spawn", "read"} =>
              /\ ex_result.status = "error" /\ ~ex_result.passed
              /\ ex_result.error_message = <<"OSError", ex_beh.fault>>

\* an execution whose process could not be spawned has returned its error result
C12_Witness ==
    /\ ex_result # NoRecord
    /\ ex_beh.fault = "spawn"
    /\ ex_result.status = "error"
    /\ ex_result.error_message = <<"OSError", "spawn">>

(***************************************************************************)
(* Properties of is_flaky (SpecFlaky).                                     *)
(***************************************************************************)
\* the last at most ten elements of a list
LastTen(list) == [k \in 1..(IF Len(list) > 10 THEN 10 ELSE Len(list)) |->
                     list[k + (IF Len(list) > 10 THEN Len(list) - 10 ELSE 0)]]

\* C13: after any sequence of is_flaky calls the history stored for each
\* test id holds at most 10 entries, and they are the most recent 10 results
\* handed in for that id, in order.
C13_StoredHistoryHoldsLastTen ==
    \A id \in DOMAIN failure_history :
        /\ Len(failure_history[id]) <= 10
        /\ failure_history[id] = LastTen(fl_fed[id])

\* C14: is_flaky returns true exactly when the window (the most recent at
\* most 10 results handed in for the id over all calls) holds at least 3
\* samples, its pass rate lies between 0.3 and 0.7 inclusive and it holds at
\* least 2 failures; pass, pass, fail, fail, pass gives true, ten passes give
\* false, fewer than 3 samples give false.
C14_FlakyIffMixedWindow ==
    fl_ret # NoRecord =>
        LET w == LastTen(fl_fed[fl_ret.test_id])
            n == Len(w)
            passes == Cardinality({k \in 1..n : w[k].passed})
            failures == Cardinality({k \in 1..n : ~w[k].passed})
            verdicts == [k \in 1..n |-> w[k].passed]
        IN  /\ fl_ret.flaky <=> (/\ n >= 3
                                 /\ 3 * n <= 10 * passes
                                 /\ 10 * passes <= 7 * n
                                 /\ failures >= 2)
            /\ verdicts = <<TRUE, TRUE, FALSE, FALSE, TRUE>> => fl_ret.flaky
            /\ (n = 10 /\ passes = 10) => ~fl_ret.flaky
            /\ Len(fl_fed[fl_ret.test_id]) < 3 => ~fl_ret.flaky

\* eleven results have been handed in for one id, the oldest has left the
\* window, and the call returned true on a window of ten with 7 passes
C14_Witness ==
    /\ fl_ret # NoRecord
    /\ Len(fl_fed[fl_ret.test_id]) = 11
    /\ fl_ret.flaky
    /\ Cardinality({k \in 2..11 : fl_fed[fl_ret.test_id][k].passed}) = 7
    /\ fl_fed[fl_ret.test_id][1].passed

(***************************************************************************)
(* Properties of the stages that ask the oracle.                           *)
(***************************************************************************)
\* C15: the pipeline never aborts on a planning failure: whatever the Plan
\* oracle call gives (usable code, a response without extractable code, or a
\* failing call), the Plan stage yields a TestPlan, with the fallback code
\* when the oracle gave none, and the scene proceeds to Execute.
C15_PlanningFailureDegrades ==
    /\ (r_pc = "raised" => exc.stage # "Plan")
    /\ (Started("Plan") /\ pc # "aborted") =>
          /\ plan # NoRecord
          /\ plan.scene_id = scene_result.scene_id
          /\ plan.test_code.author \in {"planner", "fallback"}

\* the value the callers load from the answer of the last oracle-backed call
AnswerLoaded(open, close) == LoadsMatchOrText(o_call.outcome.text, open, close)

\* a JSON array whose entries are all objects
ListOfObjects(v) ==
    /\ ~IsRaised(v)
    /\ v.k = "list"
    /\ \A j \in 1..Len(v.items) : v.items[j].k = "dict"

\* a JSON object
IsObject(v) == ~IsRaised(v) /\ v.k = "dict"

\* C16: for every oracle response that is malformed or unparsable as the
\* expected structure (not JSON, JSON of the wrong shape, list entries that
\* are not objects), explore generates no edge case and diagnose gives the
\* default diagnosis (root_cause "Unknown", failure_type "error"); neither
\* lets an exception through.
C16_MalformedResponseGivesDefault ==
    (o_call # NoRecord /\ o_call.fn \in {"explore", "diagnose"}) =>
        IF IsRaised(o_call.outcome) THEN TRUE
        ELSE IF o_call.fn = "explore"
        THEN (o_call.initial_result.passed /\ ~ListOfObjects(AnswerLoaded("[", "]"))) =>
                 /\ ~IsRaised(o_call.result)
                 /\ o_call.result.scenes = << >>
        ELSE ~IsObject(AnswerLoaded("{", "}")) =>
                 /\ ~IsRaised(o_call.result)
                 /\ o_call.result.root_cause = "Unknown"
                 /\ o_call.result.failure_type = "error"

\* C17: a failure local to one stage of one scene (exploration, edge-case
\* planning, diagnosis, healing-code generation) does not terminate run: run
\* does not end with an exception raised in the Explore or the Heal stage,
\* and when it returns it holds one SceneResult for every input scene.
C17_StageFailureDoesNotEndRun ==
    /\ (r_pc = "raised" => exc.stage \notin {"Explore", "Heal"})
    /\ (r_pc = "returned" => Len(run_result.scene_results) = Len(scenes))

\* the answer holds the member "passed" with a value that reads as true
AnswerSaysPassed ==
    LET toks == SelectSeq(o_call.outcome.text, NotSpace)
    IN  \E k \in 1..(Len(toks) - 2) :
            /\ toks[k] = TokStr("passed")
            /\ toks[k + 1] = P(":")
            /\ toks[k + 2].v \in {"true", "1"}

\* C18: judging an assertion that goes the semantic path, an oracle failure
\* or an unparsable oracle response raises to the caller: no JudgmentResult
\* is returned, in particular none with passed = true; a passing judgment
\* is only ever returned for an answer that says passed.
C18_SemanticJudgeFailureRaises ==
    (o_call # NoRecord /\ o_call.fn = "judge"
       /\ o_call.assertion.type \notin {"status_code", "body_contains", "response_time"}) =>
        /\ IsRaised(o_call.outcome) => IsRaised(o_call.result)
        /\ (~IsRaised(o_call.outcome) /\ ~IsObject(AnswerLoaded("{", "}"))) =>
              IsRaised(o_call.result)
        /\ (~IsRaised(o_call.result) /\ o_call.result.passed) =>
              (~IsRaised(o_call.outcome) /\ AnswerSaysPassed)

\* a db_state assertion was judged on an answer with an unclosed array in
\* front of prose, and the judge raised
C18_Witness ==
    /\ o_call # NoRecord
    /\ o_call.fn = "judge"
    /\ o_call.assertion.type = "db_state"
    /\ ~IsRaised(o_call.outcome)
    /\ o_call.outcome.text = <<P("]")>> \o FragProse
    /\ o_call.result = Raised("RuntimeError")

\* C19: with quality judgment enabled and no structured response data on
\* the primary result, its metadata holds quality_score with an explicit
\* null, never 0 and never a missing key; with response data present it
\* holds the score the judge returned; with judgment disabled no
\* quality_score key is written.
C19_QualityScoreExplicitNull ==
    (o_call # NoRecord /\ o_call.fn = "quality" /\ ~IsRaised(o_call.after)) =>
        LET metadata == o_call.after.metadata
            data == o_call.result.response_data
            present == IF data = NoRecord THEN FALSE ELSE data.keys # << >>
        IN  IF ~o_call.cfg.enable_quality_judgment
            THEN "quality_score" \notin DOMAIN metadata
            ELSE /\ "quality_score" \in DOMAIN metadata
                 /\ IF present
                    THEN metadata["quality_score"] = [score |-> o_call.quality.score]
                    ELSE /\ metadata["quality_score"] = NoRecord
                         /\ metadata["quality_score"] # [score |-> 0]

\* the block ran enabled on a result without response data and recorded null
C19_Witness ==
    /\ o_call # NoRecord
    /\ o_call.fn = "quality"
    /\ o_call.cfg.enable_quality_judgment
    /\ o_call.result.response_data = NoRecord
    /\ ~IsRaised(o_call.after)
    /\ "quality_score" \in DOMAIN o_call.after.metadata
    /\ o_call.after.metadata["quality_score"] = NoRecord

(***************************************************************************)
(* Properties of the counters of run (Spec).                               *)
(***************************************************************************)
RECURSIVE SumEdgeCounts(_)
SumEdgeCounts(results) ==
    IF Len(results) = 0 THEN 0
    ELSE results[1].edge_cases_count + SumEdgeCounts(Tail(results))

\* C20: run keeps its counters consistent: after each scene
\* passed + failed = len(scene_results); scene_results[i] is the result of
\* scenes[i]; passed counts exactly the results with passed true;
\* edge_cases_found is the sum of their edge_cases_count; and when run
\* returns total_scenes = len(scenes) = passed + failed.
C20_CountersConsistent ==
    run_result # NoRecord =>
        LET results == run_result.scene_results
            n == Len(results)
        IN  /\ n = idx
            /\ run_result.passed + run_result.failed = n
            /\ \A i \in 1..n : results[i].scene_id = scenes[i].id
            /\ run_result.passed = Cardinality({i \in 1..n : results[i].passed})
            /\ run_result.edge_cases_found = SumEdgeCounts(results)
            /\ r_pc = "returned" =>
                  /\ run_result.total_scenes = Len(scenes)
                  /\ Len(scenes) = run_result.passed + run_result.failed

\* run returned two scenes, one passed and one failed, with an edge case found
C20_Witness ==
    /\ r_pc = "returned"
    /\ Len(scenes) = 2
    /\ run_result.passed = 1
    /\ run_result.failed = 1
    /\ run_result.edge_cases_found >= 1

\* C21: the number of edge-case scenes explore generates for a scene, which
\* run_scene stores as edge_cases_count, never exceeds the configured
\* max_edge_cases_per_scene, whatever the configured value and the number of
\* suggestions the oracle returns.
C21_EdgeCasesWithinConfiguredMaximum ==
    (o_call # NoRecord /\ o_call.fn = "explore" /\ ~IsRaised(o_call.result))
        => Len(o_call.result.scenes) <= o_call.max_edge_cases_per_scene

\* an ExecutionResult without the quality score its metadata may hold
WithoutQualityScore(result) ==
    [result EXCEPT !.metadata = [k \in (DOMAIN @) \ {"quality_score"} |-> @[k]]]

\* between two states the result object is left alone, or a quality score is
\* attached to it
AttachesAtMostQualityScore(before, after) ==
    /\ WithoutQualityScore(after) = WithoutQualityScore(before)
    /\ "quality_score" \in DOMAIN before.metadata => after = before

\* C22: once the primary execute call has returned, no step of the scene run
\* (explore, heal, judge, return) and no later scene changes a field of the
\* primary ExecutionResult, except that the judge stage adds quality_score to
\* its metadata; in particular a successful healing leaves its status and
\* passed as they are.
C22_PrimaryResultOnlyGainsQualityScore ==
    [][/\ pc \in {"explore", "exploring", "heal", "healing", "judge", "return"}
           => AttachesAtMostQualityScore(scene_result.execution_result,
                                         scene_result'.execution_result)
       /\ pc \in {"explore", "exploring", "heal", "healing"}
           => scene_result'.execution_result = scene_result.execution_result
       /\ pc = "return"
           => run_result'.scene_results[idx + 1].execution_result
                = scene_result.execution_result
       /\ run_result # NoRecord
           => \A i \in 1..Len(run_result.scene_results) :
                run_result'.scene_results[i].execution_result
                  = run_result.scene_results[i].execution_result]_vars

\* a scene run rescued by healing and judged: the primary result still says failed
C22_Witness ==
    /\ pc = "return"
    /\ Healed(scene_result)
    /\ scene_result.healing_result.passed
    /\ scene_result.passed
    /\ scene_result.execution_result.status = "failed"
    /\ ~scene_result.execution_result.passed
    /\ scene_result.execution_result.plan_id = plan.id
    /\ "quality_score" \in DOMAIN scene_result.execution_result.metadata

\* C23: when the run command ends (the scene and connection files having
\* loaded), its exit code is non-zero exactly when some scene of the run has
\* the final verdict failed; a scene rescued by healing counts as passed.
C23_NonZeroExitIffSomeSceneFailed ==
    cli_exit # NoRecord
        => (cli_exit.code # 0
              <=> \E i \in 1..Len(run_result.scene_results) :
                      ~run_result.scene_results[i].passed)

\* C24: the id of every Scene is non-empty from its creation on (generated
\* when none is supplied), and no add_ call on the scene and no call on its
\* builder changes it.
C24_SceneIdNonEmptyAndStable ==
    /\ [](\A ref \in DOMAIN heap : heap[ref].id # << >>)
    /\ [][\A ref \in DOMAIN heap : heap'[ref].id = heap[ref].id]_vars

\* the arguments of the logged calls whose method is in ops, in call order
RECURSIVE Logged(_, _)
Logged(log, ops) ==
    IF log = << >> THEN << >>
    ELSE IF log[1].op \in ops THEN <<log[1].arg>> \o Logged(Tail(log), ops)
    ELSE Logged(Tail(log), ops)

\* C25: after any sequence of calls, the steps, assertions and edge cases of
\* the scene are exactly the elements that the add_step, add_assertion and
\* add_edge_case calls (made directly or through with_step, with_assertion,
\* with_edge_case) added to their own sequence, one per call and in call
\* order; and each of these calls returned the object it was called on.
C25_AddCallsAppendInCallOrder ==
    /\ \A ref \in DOMAIN heap :
        /\ [i \in 1..Len(heap[ref].steps) |-> heap[ref].steps[i].action]
             = Logged(sc_log, {"add_step", "with_step"})
        /\ [i \in 1..Len(heap[ref].assertions) |-> heap[ref].assertions[i].type]
             = Logged(sc_log, {"add_assertion", "with_assertion"})
        /\ heap[ref].edge_cases = Logged(sc_log, {"add_edge_case", "with_edge_case"})
    /\ \A k \in 1..Len(sc_log) :
        sc_log[k].op \in {"add_step", "add_assertion", "add_edge_case", "with_step",
                          "with_assertion", "with_edge_case"}
            => sc_log[k].ret = sc_log[k].on

\* two different steps and an assertion added, through the builder and directly
C25_Witness ==
    /\ Len(sc_log) = 1 + MaxOps
    /\ \E ref \in DOMAIN heap :
        /\ Len(heap[ref].steps) = 2
        /\ heap[ref].steps[1].action # heap[ref].steps[2].action
        /\ Len(heap[ref].assertions) + Len(heap[ref].edge_cases) = MaxOps - 2

\* C26: a Scene handed out by build() is as it was when build() returned,
\* whatever is called on the builder afterwards, and no two build() calls
\* hand out the same object.
C26_BuiltSceneImmutable ==
    /\ [][(sc_log' # sc_log /\ sc_log'[Len(sc_log')].on = <<"SceneBuilder">>)
            => \A i \in 1..Len(built) : heap'[built[i].ref] = heap[built[i].ref]]_vars
    /\ [](\A i, j \in 1..Len(built) : i # j => built[i].ref # built[j].ref)

\* C27: every JudgmentResult that judge (status-code, body-contains,
\* response-time and semantic paths) or the quality judgment produces has a
\* score between 0 and 1 (0..10 tenths), whatever the oracle answered.
C27_JudgmentScoreWithinUnitInterval ==
    /\ (o_call # NoRecord /\ o_call.fn = "judge" /\ ~IsRaised(o_call.result))
            => o_call.result.score \in 0..10
    /\ (o_call # NoRecord /\ o_call.fn = "quality" /\ ~IsRaised(o_call.quality))
            => o_call.quality.score \in 0..10

\* C28: get_headers returns every default header plus the auth header of the
\* auth type (bearer: Authorization "Bearer <token>"; api_key: X-API-Key with
\* the token; basic: Authorization "Basic " and the encoded credentials), the
\* auth header replacing a default header of the same name; with no auth type
\* or an unrecognised one get_auth_header is None and nothing is added; the
\* connection's stored headers are as before the call.
C28_HeadersAreDefaultsPlusAuth ==
    h_call # NoRecord =>
        LET conn == h_call.on
            ret == h_call.ret
            auth == h_call.auth_header
            expected ==
                CASE conn.auth_type = <<"bearer">> ->
                        [name |-> "Authorization",
                         value |-> <<"Bearer ">> \o conn.auth_token]
                  [] conn.auth_type = <<"api_key">> ->
                        [name |-> "X-API-Key", value |-> conn.auth_token]
                  [] conn.auth_type = <<"basic">> ->
                        [name |-> "Authorization",
                         value |-> <<"Basic ", "b64encode">> \o conn.username
                                        \o <<":">> \o conn.password]
                  [] OTHER -> NoRecord
        IN  /\ connection.headers = conn.headers
            /\ IF expected = NoRecord
               THEN /\ auth = NoRecord
                    /\ ret = conn.headers
               ELSE /\ DOMAIN auth = {expected.name}
                    /\ auth[expected.name] = expected.value
                    /\ DOMAIN ret = DOMAIN conn.headers \cup {expected.name}
                    /\ ret[expected.name] = expected.value
                    /\ \A name \in DOMAIN conn.headers \ {expected.name} :
                            ret[name] = conn.headers[name]

\* a bearer connection whose default headers hold an Authorization header of
\* their own: the call has returned the token's header in its place
C28_Witness ==
    /\ h_call # NoRecord
    /\ h_call.on.auth_type = <<"bearer">>
    /\ h_call.on.auth_token = <<"token_xyz">>
    /\ DOMAIN h_call.on.headers = {"User-Agent", "Authorization"}
    /\ h_call.ret["Authorization"] = <<"Bearer ", "token_xyz">>
    /\ h_call.ret["User-Agent"] = <<"default ", "User-Agent">>
    /\ connection.headers["Authorization"] = <<"default ", "Authorization">>

C30_TestCodesWrittenOnlyBetweenScenes ==
    /\ [][test_codes' # test_codes =>
                /\ r_pc = "running"
                /\ pc = "none"
                /\ b_pc = "idle"
                /\ b_running = {}
                /\ executing = << >>
                /\ DOMAIN test_codes' = DOMAIN test_codes \cup {plan'.id}]_vars
    /\ [](pc \in {"heal", "healing"} =>
                /\ plan.id \in DOMAIN test_codes
                /\ test_codes[plan.id] = plan.test_code
                /\ scene_result.execution_result.plan_id = plan.id)
    /\ [][\A id \in DOMAIN test_codes :
                /\ id \in DOMAIN test_codes'
                /\ test_codes'[id] = test_codes[id]]_vars

\* the second scene is being healed while the map still holds the first
\* scene's entry beside its own
C30_Witness ==
    /\ idx = 1
    /\ pc = "healing"
    /\ Cardinality(DOMAIN test_codes) = 2
    /\ test_codes[plan.id] = plan.test_code
    /\ \E id \in DOMAIN test_codes : id # plan.id

\* C33: when the test process completes within the timeout and the deletion
\* of the artifact then fails, no exception leaves execute and status and
\* passed are the ones the exit code and the scan of the output give: a
\* passing execution stays passed.
C33_CleanupFailureKeepsVerdict ==
    (ex_result # NoRecord /\ ex_beh.fault = "unlink") =>
        /\ ~IsRaised(ex_result)
        /\ IF OutputNamesError(ex_beh.out)
           THEN ex_result.status = "error" /\ ~ex_result.passed
           ELSE IF ex_beh.rc = 0
           THEN ex_result.status = "passed" /\ ex_result.passed
           ELSE ex_result.status = "failed" /\ ~ex_result.passed

\* the line holds the token FAILED or the token ERROR
HoldsErrorToken(line) ==
    \E i \in 1..Len(line) :
        \/ i + 5 <= Len(line) /\ SubSeq(line, i, i + 5) = <<"F","A","I","L","E","D">>
        \/ i + 4 <= Len(line) /\ SubSeq(line, i, i + 4) = <<"E","R","R","O","R">>

\* the first line of the output that holds a token, << >> standing for none
\* (every line that holds a token is non-empty)
FirstTokenLine(out) ==
    LET lines == SplitLines(out)
        hits == {i \in 1..Len(lines) : HoldsErrorToken(lines[i])}
    IN  IF hits = {} THEN << >>
        ELSE lines[CHOOSE i \in hits : \A j \in hits : i <= j]

\* C36 as stated: on a normally completed execution error_message is the
\* first line of the output, in output order, that holds the token FAILED or
\* ERROR, as it stands in the output; it is unset when no line holds one,
\* whatever the exit code and the status.
C36_ErrorMessageIsFirstTokenLine ==
    (ex_result # NoRecord /\ ex_beh.fault = "none") =>
        IF FirstTokenLine(ex_beh.out) = << >>
        THEN ex_result.error_message = NoText
        ELSE ex_result.error_message = FirstTokenLine(ex_beh.out)

\* C36 (amended): on a normally completed execution error_message is the
\* first line of the output that holds the token FAILED or ERROR, with the
\* white space at its two ends removed: it starts and ends with a character
\* that is not white space and the line is the message with white space
\* around it; it is unset when no line holds a token.
C36_ErrorMessageIsFirstTokenLineStripped ==
    (ex_result # NoRecord /\ ex_beh.fault = "none") =>
        LET line == FirstTokenLine(ex_beh.out)
            msg == ex_result.error_message
            White(text) == \A k \in 1..Len(text) : text[k] \in {" ", "\t"}
        IN  IF line = << >> THEN msg = NoText
            ELSE /\ msg # NoText
                 /\ Len(msg) > 0
                 /\ msg[1] \notin {" ", "\t"}
                 /\ msg[Len(msg)] \notin {" ", "\t"}
                 /\ \E i \in 1..Len(line) :
                        /\ i + Len(msg) - 1 <= Len(line)
                        /\ SubSeq(line, i, i + Len(msg) - 1) = msg
                        /\ White(SubSeq(line, 1, i - 1))
                        /\ White(SubSeq(line, i + Len(msg), Len(line)))

\* the process exits 0 and writes a passed counter, then an indented ERROR
\* line: the message is that second line without its indentation
C36_Witness ==
    /\ ex_result # NoRecord
    /\ ex_beh.fault = "none"
    /\ ex_beh.rc = 0
    /\ ex_beh.out = JoinLines(<<LinePassedCount, <<" ","E","R","R","O","R"," ","t">>>>)
    /\ ex_result.error_message = <<"E","R","R","O","R"," ","t">>

\* the history the tracker holds for a test id, empty for an id it has not seen
HistoryOf(stored, id) == IF id \in DOMAIN stored THEN stored[id] ELSE << >>

\* C34: the tracker keeps one history per test id across calls.  A call for
\* one id leaves the history stored for every other id as it was; the results
\* handed in are added behind those of the earlier calls for the same id, so
\* handing in the same results twice stores them twice; a call with an empty
\* list leaves every history as it was; and the classification a call
\* returns is the one its own id's stored history gives, whatever was handed
\* in for other ids.
C34_HistoryKeptPerTestId ==
    /\ [][fl_ret' # NoRecord =>
            /\ \A id \in {"t1", "t2"} \ {fl_ret'.test_id} :
                    HistoryOf(failure_history', id) = HistoryOf(failure_history, id)
            /\ HistoryOf(failure_history', fl_ret'.test_id)
                    = HistoryOf(failure_history, fl_ret'.test_id) \o fl_ret'.history
            /\ fl_ret'.history = << >> =>
                    \A id \in {"t1", "t2"} :
                        HistoryOf(failure_history', id) = HistoryOf(failure_history, id)]_vars
    /\ [](fl_ret # NoRecord =>
            LET h == HistoryOf(failure_history, fl_ret.test_id)
                w == [k \in 1..(IF Len(h) > 10 THEN 10 ELSE Len(h)) |->
                        h[Len(h) - (IF Len(h) > 10 THEN 10 ELSE Len(h)) + k].passed]
                passes == Cardinality({k \in 1..Len(w) : w[k]})
            IN  fl_ret.flaky <=> (/\ Len(w) >= 3
                                  /\ 3 * Len(w) <= 10 * passes
                                  /\ 10 * passes <= 7 * Len(w)
                                  /\ Len(w) - passes >= 2))

\* the same result has been handed in twice for t1 and is stored twice, the
\* second call turning the classification of t1 to flaky, while t2 has a
\* history of its own that holds passes only
C34_Witness ==
    /\ fl_ret # NoRecord
    /\ fl_ret.test_id = "t1"
    /\ fl_ret.flaky
    /\ Len(fl_ret.history) = 1
    /\ LET h == HistoryOf(failure_history, "t1")
       IN  /\ Len(h) >= 4
           /\ h[Len(h)] = h[Len(h) - 1]
           /\ h[Len(h)] = fl_ret.history[1]
    /\ HistoryOf(failure_history, "t2") # << >>
    /\ \A k \in 1..Len(HistoryOf(failure_history, "t2")) :
            HistoryOf(failure_history, "t2")[k].passed

\* C37: exploration and healing never both happen in one scene run.  In
\* every SceneResult with a healing result the edge-case results are empty
\* and edge_cases_count is 0; in every scene run in which exploration ran
\* healing did not, the healing result is absent and passed is the primary
\* result's passed.
C37_ExplorationAndHealingExclusive ==
    /\ \A sr \in SceneResultsSoFar :
          /\ Healed(sr) => sr.edge_case_results = << >> /\ sr.edge_cases_count = 0
          /\ (sr.edge_cases_count > 0 \/ sr.edge_case_results # << >>) =>
                /\ ~Healed(sr)
                /\ sr.passed = sr.execution_result.passed
    /\ ~(Started("Explore") /\ Started("Heal"))
    /\ calls.explore = 0 \/ (calls.diagnose = 0 /\ calls.heal = 0)
    /\ (Started("Explore") /\ scene_result # NoRecord) =>
          /\ ~Healed(scene_result)
          /\ scene_result.passed = scene_result.execution_result.passed
    /\ (Started("Heal") /\ scene_result # NoRecord) =>
          /\ scene_result.edge_case_results = << >>
          /\ scene_result.edge_cases_count = 0

\* with both exploration and healing configured on, a run has returned one
\* scene that was explored (an edge case ran and failed) and one that was
\* healed
C37_Witness ==
    /\ r_pc = "returned"
    /\ config.enable_edge_case_exploration /\ config.enable_healing
    /\ \E sr \in SceneResultsSoFar :
        /\ sr.edge_cases_count > 0
        /\ ~sr.edge_case_results[1].passed
        /\ sr.passed
    /\ \E sr \in SceneResultsSoFar : Healed(sr) /\ sr.healing_result.passed

ResultsOfExecute ==
    (IF scene_result = NoRecord \/ pc \in {"none", "execute", "executing", "aborted"}
     THEN {}
     ELSE {scene_result.execution_result}
            \cup {scene_result.edge_case_results[i] :
                    i \in 1..Len(scene_result.edge_case_results)}
            \cup (IF Healed(scene_result) THEN {scene_result.healing_result} ELSE {}))
      \cup {b_futures[i] : i \in {j \in 1..Len(b_futures) : b_futures[j] # NoRecord}}
      \cup UNION {{sr.execution_result}
                    \cup {sr.edge_case_results[i] : i \in 1..Len(sr.edge_case_results)}
                    \cup (IF Healed(sr) THEN {sr.healing_result} ELSE {}) :
                  sr \in SceneResultsSoFar}

\* C39: no ExecutionResult that execute returns carries response data, on any
\* path; so in a run with quality judgment enabled the judge is never asked
\* and every quality_score recorded is null.
C39_NoResponseDataSoNoJudgment ==
    /\ \A result \in ResultsOfExecute : result.response_data = NoRecord
    /\ calls.judge = 0
    /\ ~(\E k \in 1..Len(trace) : trace[k] = Event("Judge", "start"))
            \/ config.enable_quality_judgment
    /\ \A sr \in SceneResultsSoFar :
          IF config.enable_quality_judgment
          THEN /\ "quality_score" \in DOMAIN sr.execution_result.metadata
               /\ sr.execution_result.metadata["quality_score"] = NoRecord
          ELSE "quality_score" \notin DOMAIN sr.execution_result.metadata

\* with quality judgment enabled a run has returned a scene whose primary
\* execution passed and whose edge case ran, and a healed scene: each has a
\* null quality_score and the judge was not asked
C39_Witness ==
    /\ r_pc = "returned"
    /\ config.enable_quality_judgment
    /\ calls.judge = 0
    /\ \E sr \in SceneResultsSoFar :
        /\ sr.execution_result.status = "passed"
        /\ sr.edge_cases_count > 0
        /\ sr.execution_result.metadata["quality_score"] = NoRecord
    /\ \E sr \in SceneResultsSoFar :
        /\ Healed(sr)
        /\ sr.execution_result.metadata["quality_score"] = NoRecord

\* C35: every edge-case scene that explore synthesizes carries the original
\* scene's actor, steps and assertions (same elements, same order) and
\* priority; its tags are the original tags followed by "edge-case" and a
\* priority tag; its metadata records the original scene's id; its id differs
\* from the original's and from every other edge-case scene's; and the
\* original scene is, after the call, as it was before it.
C35_EdgeCaseSceneCarriesOriginal ==
    (o_call # NoRecord /\ o_call.fn = "explore" /\ ~IsRaised(o_call.result)) =>
        LET original == o_call.scene
            made == o_call.result.scenes
        IN  /\ \A j \in 1..Len(made) :
                  /\ made[j].actor = original.actor
                  /\ Len(made[j].steps) = Len(original.steps)
                  /\ \A k \in 1..Len(original.steps) : made[j].steps[k] = original.steps[k]
                  /\ Len(made[j].assertions) = Len(original.assertions)
                  /\ \A k \in 1..Len(original.assertions) :
                        made[j].assertions[k] = original.assertions[k]
                  /\ made[j].priority = original.priority
                  /\ Len(made[j].tags) = Len(original.tags) + 2
                  /\ \A k \in 1..Len(original.tags) : made[j].tags[k] = original.tags[k]
                  /\ made[j].tags[Len(original.tags) + 1] = "edge-case"
                  /\ made[j].tags[Len(original.tags) + 2][1] = "priority-"
                  /\ made[j].metadata.original_scene_id = original.id
                  /\ made[j].id # original.id
                  /\ \A i \in 1..Len(made) : i # j => made[i].id # made[j].id
            /\ o_call.result.scene = original

\* from an original with an actor, two steps, an assertion, two tags, the
\* priority critical and metadata of its own, the capped number of edge-case
\* scenes was synthesized, the first from a suggestion naming a priority
C35_Witness ==
    /\ o_call # NoRecord
    /\ o_call.fn = "explore"
    /\ ~IsRaised(o_call.result)
    /\ Len(o_call.scene.steps) = 2
    /\ Len(o_call.scene.tags) = 2
    /\ o_call.scene.priority = "critical"
    /\ Len(o_call.result.scenes) = EdgeCap
    /\ o_call.result.scenes[1].tags = <<"smoke", "edge-case", "edge-case", <<"priority-", "high">>>>
    /\ o_call.result.scenes[2].tags[4] = <<"priority-", "medium">>
    /\ o_call.result.scenes[1].steps = o_call.scene.steps

(***************************************************************************)
(* Properties of the artifacts (SpecFiles).                                *)
(***************************************************************************)
\* the executions that have created their file and have not returned
InProgress == {i \in 1..Len(executions) : executions[i].pc \in {"written", "exited"}}

\* the files of the temporary directory that execution i created
ArtifactsOf(i) == {path \in DOMAIN tmpdir : tmpdir[path].by = i}

\* C31: any two executions in progress at the same time use different
\* artifact paths; the file an execution's test process ran is the one that
\* execution wrote, with its plan's code; and a step changes or removes only
\* files created by the execution taking the step.
C31_ArtifactsPrivatePerExecution ==
    /\ [](/\ \A i, j \in InProgress :
                i # j => executions[i].test_file # executions[j].test_file
          /\ \A i \in InProgress :
                /\ executions[i].test_file \in DOMAIN tmpdir
                /\ tmpdir[executions[i].test_file] =
                       [content |-> executions[i].plan.test_code, by |-> i]
          /\ \A i \in 1..Len(executions) :
                executions[i].ran # NoRecord =>
                    executions[i].ran = [content |-> executions[i].plan.test_code, by |-> i])
    /\ [][\A path \in DOMAIN tmpdir :
              (path \notin DOMAIN tmpdir' \/ tmpdir'[path] # tmpdir[path]) =>
                  LET i == tmpdir[path].by
                  IN  /\ executions[i].pc = "exited"
                      /\ executions'[i].pc = "returned"
                      /\ executions[i].test_file = path
                      /\ \A j \in 1..Len(executions) : j # i => executions'[j] = executions[j]]_vars

\* two executions whose test processes have both exited are in progress while
\* a third has returned and removed its file, and a fourth file was left behind
C31_Witness ==
    /\ \E i, j \in InProgress :
          /\ i # j
          /\ executions[i].pc = "exited"
          /\ executions[j].ran # NoRecord
    /\ \E k \in 1..Len(executions) :
          /\ executions[k].pc = "returned"
          /\ executions[k].b.fault = "none"
          /\ ArtifactsOf(k) = {}

C40_SceneRunsReachDoneWhenOracleReturns ==
    r_pc = "raised" => exc.raised = "APIError"

=========================================================================
